---------------------------- MODULE Spec2Model ----------------------------
(***************************************************************************)
(* A model of the concurrent vault index of ObsidianTUI                    *)
(* (internal/vault/vault.go) with the text extraction it calls             *)
(* (internal/parser/links.go, internal/parser/tags.go).                    *)
(*                                                                         *)
(* Go strings are modelled as sequences of one-character strings, so that  *)
(* prefixes, suffixes, base names, lower-casing and the regular            *)
(* expressions are computed character by character as the code does.       *)
(***************************************************************************)
EXTENDS Integers, Sequences, FiniteSets, TLC

(***************************************************************************)
(* Strings                                                                 *)
(***************************************************************************)

\* The empty Go string "".
Empty == << >>

\* Byte value of a character (ASCII), for sort.Strings and strings.ToLower.
Code(c) ==
  CASE c = " " -> 32 [] c = "#" -> 35 [] c = "(" -> 40 [] c = ")" -> 41
    [] c = "-" -> 45 [] c = "." -> 46 [] c = "/" -> 47
    [] c = "0" -> 48 [] c = "1" -> 49
    [] c = "A" -> 65 [] c = "B" -> 66 [] c = "D" -> 68 [] c = "E" -> 69
    [] c = "M" -> 77 [] c = "N" -> 78 [] c = "O" -> 79 [] c = "P" -> 80
    [] c = "S" -> 83
    [] c = "T" -> 84 [] c = "X" -> 88
    [] c = "[" -> 91 [] c = "]" -> 93 [] c = "_" -> 95
    [] c = "a" -> 97 [] c = "b" -> 98 [] c = "c" -> 99 [] c = "d" -> 100
    [] c = "e" -> 101 [] c = "i" -> 105 [] c = "j" -> 106 [] c = "k" -> 107 [] c = "l" -> 108
    [] c = "m" -> 109 [] c = "n" -> 110 [] c = "o" -> 111 [] c = "p" -> 112
    [] c = "r" -> 114 [] c = "s" -> 115 [] c = "t" -> 116 [] c = "x" -> 120
    [] c = "z" -> 122 [] c = "|" -> 124

\* unicode.ToLower on one character of the alphabet above.
LowerChar(c) ==
  CASE c = "A" -> "a" [] c = "B" -> "b" [] c = "D" -> "d" [] c = "E" -> "e"
    [] c = "M" -> "m" [] c = "N" -> "n" [] c = "O" -> "o" [] c = "P" -> "p"
    [] c = "S" -> "s" [] c = "T" -> "t" [] c = "X" -> "x"
    [] OTHER -> c

\* strings.ToLower
ToLower(s) == [i \in 1..Len(s) |-> LowerChar(s[i])]

\* strings.HasPrefix
HasPrefix(s, p) == Len(s) >= Len(p) /\ SubSeq(s, 1, Len(p)) = p

\* strings.HasSuffix
HasSuffix(s, p) ==
  Len(s) >= Len(p) /\ SubSeq(s, Len(s) - Len(p) + 1, Len(s)) = p

\* strings.Index: the 1-based position of the first occurrence of p in s,
\* 0 when there is none.
Index(s, p) ==
  LET hits == {i \in 1..(Len(s) - Len(p) + 1) : SubSeq(s, i, i + Len(p) - 1) = p}
  IN  IF hits = {} THEN 0 ELSE CHOOSE i \in hits : \A j \in hits : i <= j

\* strings.Contains
Contains(s, p) == Len(p) = 0 \/ Index(s, p) > 0

\* Byte-wise s < t, the order of sort.Strings.
RECURSIVE StrLess(_, _)
StrLess(s, t) ==
  IF Len(t) = 0 THEN FALSE
  ELSE IF Len(s) = 0 THEN TRUE
  ELSE IF Code(Head(s)) < Code(Head(t)) THEN TRUE
  ELSE IF Code(Head(s)) > Code(Head(t)) THEN FALSE
  ELSE StrLess(Tail(s), Tail(t))

\* Insertion of x into the sorted sequence q (duplicates kept).
RECURSIVE SortedInsert(_, _)
SortedInsert(q, x) ==
  IF Len(q) = 0 THEN <<x>>
  ELSE IF StrLess(x, Head(q)) THEN <<x>> \o q
  ELSE <<Head(q)>> \o SortedInsert(Tail(q), x)

\* sort.Strings
RECURSIVE SortStrings(_)
SortStrings(q) ==
  IF Len(q) = 0 THEN << >>
  ELSE SortedInsert(SortStrings(Tail(q)), Head(q))

\* Whitespace as the regexp class \s and strings.TrimSpace see it, for the
\* characters of the alphabet.
IsSpace(c) == c = " "

\* strings.TrimSpace
RECURSIVE TrimLeft(_)
TrimLeft(s) ==
  IF Len(s) > 0 /\ IsSpace(Head(s)) THEN TrimLeft(Tail(s)) ELSE s

RECURSIVE TrimRight(_)
TrimRight(s) ==
  IF Len(s) > 0 /\ IsSpace(s[Len(s)]) THEN TrimRight(SubSeq(s, 1, Len(s) - 1)) ELSE s

TrimSpace(s) == TrimRight(TrimLeft(s))

\* The position of the last "/" of s, 0 when it has none.
LastSlash(s) ==
  LET hits == {i \in 1..Len(s) : s[i] = "/"}
  IN  IF hits = {} THEN 0 ELSE CHOOSE i \in hits : \A j \in hits : j <= i

\* filepath.Base, for slash-separated relative paths without a trailing slash.
Base(p) == IF Len(p) = 0 THEN <<".">> ELSE SubSeq(p, LastSlash(p) + 1, Len(p))

\* filepath.Dir, for slash-separated relative paths without a trailing slash.
Dir(p) == IF LastSlash(p) = 0 THEN <<".">> ELSE SubSeq(p, 1, LastSlash(p) - 1)


(***************************************************************************)
(* Extraction (internal/parser)                                            *)
(***************************************************************************)

\* The length of the longest run of characters outside `stop` that starts at
\* position i of s: what a greedy negated character class [^...]+ consumes.
RECURSIVE RunLen(_, _, _)
RunLen(s, i, stop) ==
  IF i > Len(s) \/ s[i] \in stop THEN 0 ELSE 1 + RunLen(s, i + 1, stop)

\* s[i] = c, false past the end of s.
At(s, i, c) == i >= 1 /\ i <= Len(s) /\ s[i] = c

NoMatch == [ok |-> FALSE]

\* wikiLinkPattern \[\[([^\]|]+)(?:\|([^\]]+))?\]\] anchored at position i.
\* A match is [ok, from, to, g1, g2]: positions from..to of s, the first group,
\* and the second group (Empty with hasG2 false when it did not take part).
wikiLinkPatternAt(s, i) ==
  IF ~(At(s, i, "[") /\ At(s, i + 1, "[")) THEN NoMatch
  ELSE LET n1 == RunLen(s, i + 2, {"]", "|"})
           j  == i + 2 + n1
       IN  IF n1 = 0 THEN NoMatch
           ELSE IF At(s, j, "]") /\ At(s, j + 1, "]")
             THEN [ok |-> TRUE, from |-> i, to |-> j + 1,
                   g1 |-> SubSeq(s, i + 2, j - 1), hasG2 |-> FALSE, g2 |-> Empty]
           ELSE IF At(s, j, "|")
             THEN LET n2 == RunLen(s, j + 1, {"]"})
                      k  == j + 1 + n2
                  IN  IF n2 > 0 /\ At(s, k, "]") /\ At(s, k + 1, "]")
                        THEN [ok |-> TRUE, from |-> i, to |-> k + 1,
                              g1 |-> SubSeq(s, i + 2, j - 1), hasG2 |-> TRUE,
                              g2 |-> SubSeq(s, j + 1, k - 1)]
                        ELSE NoMatch
           ELSE NoMatch

\* markdownLinkPattern \[([^\]]+)\]\(([^)]+)\) anchored at position i.
markdownLinkPatternAt(s, i) ==
  IF ~At(s, i, "[") THEN NoMatch
  ELSE LET n1 == RunLen(s, i + 1, {"]"})
           j  == i + 1 + n1
           n2 == RunLen(s, j + 2, {")"})
           k  == j + 2 + n2
       IN  IF n1 > 0 /\ At(s, j, "]") /\ At(s, j + 1, "(") /\ n2 > 0 /\ At(s, k, ")")
             THEN [ok |-> TRUE, from |-> i, to |-> k,
                   g1 |-> SubSeq(s, i + 1, j - 1), hasG2 |-> TRUE,
                   g2 |-> SubSeq(s, j + 2, k - 1)]
             ELSE NoMatch

\* The class [a-zA-Z0-9_\-/] of tagPattern.
IsTagChar(c) ==
  LET n == Code(c)
  IN  \/ (n >= 97 /\ n <= 122) \/ (n >= 65 /\ n <= 90) \/ (n >= 48 /\ n <= 57)
      \/ c = "_" \/ c = "-" \/ c = "/"

\* The length of the longest run of tag characters starting at position i.
RECURSIVE TagRunLen(_, _)
TagRunLen(s, i) ==
  IF i > Len(s) \/ ~IsTagChar(s[i]) THEN 0 ELSE 1 + TagRunLen(s, i + 1)

\* tagPattern (?:^|\s)#([a-zA-Z0-9_\-/]+) anchored at position i: ^ matches
\* only at the start of the text (the pattern sets no multi-line flag).
tagPatternAt(s, i) ==
  LET h == IF i = 1 /\ At(s, 1, "#") THEN 1
           ELSE IF i <= Len(s) /\ IsSpace(s[i]) /\ At(s, i + 1, "#") THEN i + 1
           ELSE 0
      n == IF h = 0 THEN 0 ELSE TagRunLen(s, h + 1)
  IN  IF h = 0 \/ n = 0 THEN NoMatch
      ELSE [ok |-> TRUE, from |-> i, to |-> h + n,
            g1 |-> SubSeq(s, h + 1, h + n), hasG2 |-> FALSE, g2 |-> Empty]

\* The pattern kinds of FindAll below.
PatternAt(kind, s, i) ==
  CASE kind = "wiki" -> wikiLinkPatternAt(s, i)
    [] kind = "markdown" -> markdownLinkPatternAt(s, i)
    [] kind = "tag" -> tagPatternAt(s, i)

\* regexp.FindAllStringSubmatchIndex(content, -1): the successive leftmost,
\* non-overlapping matches from position i on.
RECURSIVE FindAll(_, _, _)
FindAll(kind, s, i) ==
  IF i > Len(s) THEN << >>
  ELSE LET m == PatternAt(kind, s, i)
       IN  IF m.ok THEN <<m>> \o FindAll(kind, s, m.to + 1)
           ELSE FindAll(kind, s, i + 1)

\* ExtractWikiLinks: one Link per match, with Go's 0-based byte offsets.
ExtractWikiLinks(content) ==
  LET matches == FindAll("wiki", content, 1)
  IN  [n \in 1..Len(matches) |->
         [Target |-> matches[n].g1,
          DisplayText |-> IF matches[n].hasG2 THEN matches[n].g2 ELSE matches[n].g1,
          StartPos |-> matches[n].from - 1,
          EndPos |-> matches[n].to,
          IsWikiLink |-> TRUE]]

\* ExtractMarkdownLinks
ExtractMarkdownLinks(content) ==
  LET matches == FindAll("markdown", content, 1)
  IN  [n \in 1..Len(matches) |->
         [Target |-> matches[n].g2,
          DisplayText |-> matches[n].g1,
          StartPos |-> matches[n].from - 1,
          EndPos |-> matches[n].to,
          IsWikiLink |-> FALSE]]

\* The links of both kinds merged, the markdown links first: the variant the
\* order of the links is tested against.
ExtractAllLinks_MarkdownFirst(content) ==
  ExtractMarkdownLinks(content) \o ExtractWikiLinks(content)

\* ExtractAllLinks: the wiki links, then the markdown links.
ExtractAllLinks(content) ==
  ExtractWikiLinks(content) \o ExtractMarkdownLinks(content)

\* ExtractTags: one Tag per match; StartPos is the offset of the "#".
ExtractTags(content) ==
  LET matches == FindAll("tag", content, 1)
  IN  [n \in 1..Len(matches) |->
         [Name |-> matches[n].g1,
          StartPos |-> matches[n].to - Len(matches[n].g1) - 1,
          EndPos |-> matches[n].to]]

\* The names of `tags` in order, each kept at its first occurrence only.
RECURSIVE Unique(_, _)
Unique(names, seen) ==
  IF Len(names) = 0 THEN << >>
  ELSE IF Head(names) \in seen THEN Unique(Tail(names), seen)
  ELSE <<Head(names)>> \o Unique(Tail(names), seen \cup {Head(names)})

\* ExtractUniqueTags: the distinct tag names, sorted.
ExtractUniqueTags(content) ==
  LET tags == ExtractTags(content)
  IN  SortStrings(Unique([n \in 1..Len(tags) |-> tags[n].Name], {}))

\* The document extension.
DotMd == <<".", "m", "d">>

\* ResolveWikiLink: trims, cuts at the first "#", appends ".md" when missing.
\* currentDir and vaultPath are not used by the code.
ResolveWikiLink(linkTarget, currentDir, vaultPath) ==
  LET trimmed == TrimSpace(linkTarget)
      h       == Index(trimmed, <<"#">>)
      target  == IF h > 0 THEN SubSeq(trimmed, 1, h - 1) ELSE trimmed
  IN  IF HasSuffix(target, DotMd) THEN target ELSE target \o DotMd

\* Two passes where the first compares the base name of the entry with the
\* base name of the target: the variant the resolver is tested against.
findFileInternal_BaseOfTarget(files, name) ==
  LET lname == ToLower(name)
      pass1 == {relPath \in files : ToLower(Base(relPath)) = Base(lname)}
      pass2 == {relPath \in files : ToLower(relPath) = lname}
  IN  IF pass1 # {} THEN pass1
      ELSE IF pass2 # {} THEN pass2
      ELSE {Empty}

\* findFileInternal over the key set of `files`. Go iterates a map in an
\* unspecified order, so the first match of a pass is any match of it: this
\* is the set of values the call can return ({Empty} when nothing matches).
findFileInternal(files, name) ==
  LET lname == ToLower(name)
      pass1 == {relPath \in files : ToLower(Base(relPath)) = lname}
      pass2 == {relPath \in files : ToLower(relPath) = lname}
  IN  IF pass1 # {} THEN pass1
      ELSE IF pass2 # {} THEN pass2
      ELSE {Empty}

(***************************************************************************)
(* The universe of the model                                               *)
(***************************************************************************)

\* Concurrent callers of the vault's public operations.
NumThreads == 2

\* Public operations started in one behaviour.
MaxOps == 3

Threads == 1..NumThreads

\* BuildIndexAsync goroutines: NewVault starts one and every Scan one more.
BuildIds == 1..(MaxOps + 1)

\* No pointer.
NoPtr == << >>

\* Document identifiers the callers use.
A_md == <<"a", ".", "m", "d">>

B_md == <<"b", ".", "m", "d">>

Ids == {A_md, B_md}

\* filepath.Rel(v.Path, v.Path): the identifier under which the walk
\* catalogues the root directory itself.
Dot == <<".">>

\* Document contents the callers write and the disk starts with.
LinkAndTag == <<"[", "[", "b", "]", "]", " ", "#", "p">>

OtherTag == <<"#", "t">>

Contents == {Empty, LinkAndTag, OtherTag}

\* The tag names the callers query.
TagNames == {<<"p">>, <<"t">>}

\* The root directories a vault is opened on: [name, kind], kind being what
\* os.Stat finds at the path.
Roots ==
  { [name |-> <<"v">>, kind |-> "dir"],
    [name |-> <<"v">>, kind |-> "file"],
    [name |-> <<"v">>, kind |-> "missing"] }

\* The trees below the root at the start: a function from relative path to
\* [isDir, data].
RegularFile(data) == [isDir |-> FALSE, data |-> data]

Directory == [isDir |-> TRUE, data |-> Empty]

InitialDisks == { (A_md :> RegularFile(LinkAndTag)) @@ (B_md :> RegularFile(Empty)) }

\* The documents of the indexing scenarios. "See [[b]] and #project":
SeeB == <<"S", "e", "e", " ", "[", "[", "b", "]", "]", " ", "a", "n", "d", " ", "#", "p", "r", "o", "j", "e", "c", "t">>

\* "no links":
NoLinks == <<"n", "o", " ", "l", "i", "n", "k", "s">>

\* "[b](b.md) #p": a markdown-style link and a tag.
MdLinkB == <<"[", "b", "]", "(", "b", ".", "m", "d", ")", " ", "#", "p">>

\* "[[a]] [[A#s|x]]": two wiki-style links to one document.
TwiceA == <<"[", "[", "a", "]", "]", " ", "[", "[", "A", "#", "s", "|", "x", "]", "]">>

\* "[[b]] [[c]] a#p": a wiki-style link, one that resolves to nothing, and a
\* "#" that starts no tag.
LinksBC == <<"[", "[", "b", "]", "]", " ", "[", "[", "c", "]", "]", " ", "a", "#", "p">>

\* A second b.md, in the directory d.
D_dir == <<"d">>

D_B_md == <<"d", "/", "b", ".", "m", "d">>

TagProject == <<"p", "r", "o", "j", "e", "c", "t">>

\* The trees the indexing scenarios open.
IndexDisks ==
  { (A_md :> RegularFile(SeeB)) @@ (B_md :> RegularFile(NoLinks)),
    (A_md :> RegularFile(MdLinkB)) @@ (B_md :> RegularFile(TwiceA)),
    (A_md :> RegularFile(LinksBC)) @@ (B_md :> RegularFile(OtherTag))
      @@ (D_dir :> Directory) @@ (D_B_md :> RegularFile(LinkAndTag)) }

\* The trees of the scanning scenarios: documents whose extension is written
\* in several cases beside a text file, and hidden entries beside a plain
\* directory with a document.
Note_md == <<"n", "o", "t", "e", ".", "m", "d">>
Note_MD == <<"n", "o", "t", "e", ".", "M", "D">>
NOTE_Md == <<"N", "O", "T", "E", ".", "M", "d">>
Note_TXT == <<"n", "o", "t", "e", ".", "T", "X", "T">>
HiddenDir == <<".", "d">>
HiddenDir_X_md == <<".", "d", "/", "x", ".", "m", "d">>
Hidden_A_md == <<".", "a", ".", "m", "d">>
D_N_md == <<"d", "/", "n", ".", "m", "d">>

ScanDisks ==
  { (Note_md :> RegularFile(Empty)) @@ (Note_MD :> RegularFile(Empty))
      @@ (NOTE_Md :> RegularFile(Empty)) @@ (Note_TXT :> RegularFile(Empty)),
    (HiddenDir :> Directory) @@ (HiddenDir_X_md :> RegularFile(Empty))
      @@ (Hidden_A_md :> RegularFile(Empty))
      @@ (D_dir :> Directory) @@ (D_N_md :> RegularFile(Empty)) }

\* The vault directories of the scanning scenarios: v and .v.
ScanRoots ==
  { [name |-> <<"v">>, kind |-> "dir"],
    [name |-> <<".", "v">>, kind |-> "dir"] }

\* The texts of the parser scenarios: up to MaxPieces pieces in a row, the
\* pieces being links of both kinds, plain text and stray brackets.
MaxPieces == 3

LinkPieces ==
  { <<"[", "[", "a", "]", "]">>,
    <<"[", "[", "b", "|", "x", "]", "]">>,
    <<"[", "a", "]", "(", "b", ")">>,
    <<"[", "x", "]", "(", "a", ".", "m", "d", ")">>,
    <<"x", " ">>,
    <<"[">>,
    <<"]", "]">>,
    <<"(", "b", ")">> }

RECURSIVE TextsOf(_)
TextsOf(n) ==
  IF n = 0 THEN {Empty}
  ELSE LET shorter == TextsOf(n - 1)
       IN  shorter \cup {t \o piece : t \in shorter, piece \in LinkPieces}

LinkTexts == TextsOf(MaxPieces)

\* The documents of the resolver scenarios: x.md in the directories a and b,
\* and c.md that links to them.
A_dir == <<"a">>

B_dir == <<"b">>

A_X_md == <<"a", "/", "x", ".", "m", "d">>

B_X_md == <<"b", "/", "x", ".", "m", "d">>

C_md == <<"c", ".", "m", "d">>

\* "[[x]] [[a/x]] [[nonexistent]]":
ThreeLinks == <<"[", "[", "x", "]", "]", " ", "[", "[", "a", "/", "x", "]", "]", " ", "[", "[", "n", "o", "n", "e", "x", "i", "s", "t", "e", "n", "t", "]", "]">>

\* "[[A/X]] [[ b/x.md#s|t]]": another case, blanks, an anchor, the extension.
PathLinks == <<"[", "[", "A", "/", "X", "]", "]", " ", "[", "[", " ", "b", "/", "x", ".", "m", "d", "#", "s", "|", "t", "]", "]">>

\* The trees the resolver scenarios open.
ResolveDisks ==
  { (A_dir :> Directory) @@ (A_X_md :> RegularFile(Empty))
      @@ (B_dir :> Directory) @@ (B_X_md :> RegularFile(Empty))
      @@ (C_md :> RegularFile(content)) : content \in {ThreeLinks, PathLinks} }

\* The names FindFile is called with in the resolver scenarios.
ResolveNames ==
  {<<"x", ".", "m", "d">>, <<"A", "/", "x", ".", "m", "d">>, <<"n", "o", "n", "e", "x", "i", "s", "t", "e", "n", "t", ".", "m", "d">>, <<"x">>}

\* The queries of the search scenarios.
SearchQueries == {<<"S", "E", "E">>, <<"b">>, <<"D">>, <<"z", "z">>, <<"#", "P">>}

\* The arguments of the queries in the indexing scenarios.
QueryIds == {A_md, B_md, D_B_md}

QueryTags == {TagProject, <<"p">>, <<"t">>}

QueryNames == {<<"b">>, B_md, <<"D", "/", "b", ".", "m", "d">>, <<"c">>}

(***************************************************************************)
(* State                                                                   *)
(***************************************************************************)

VARIABLES
  root,       \* the root directory the vault is opened on
  disk,       \* the filesystem below the root: relative path -> [isDir, data]
  opened,     \* "no" before NewVault, then "yes" or "failed"
  Files,      \* v.Files: relPath -> the index k of the File it points to
  objs,       \* the File objects in use: <<relPath, k>> -> File
  Tags,       \* v.Tags: tag -> sequence of relPath
  Backlinks,  \* v.Backlinks: relPath -> sequence of relPath
  indexed,    \* v.indexed
  indexing,   \* v.indexing
  thr,        \* each caller's operation in progress
  bld,        \* each BuildIndexAsync goroutine
  nops,       \* public operations started so far
  hist        \* history variables (what the claims speak of)

vars == <<root, disk, opened, Files, objs, Tags, Backlinks, indexed, indexing,
          thr, bld, nops, hist>>

\* The empty map.
EmptyMap == [x \in {} |-> x]

\* m with v appended to the sequence under key: m[key] = append(m[key], v).
MapAppend(m, key, v) ==
  IF key \in DOMAIN m THEN [m EXCEPT ![key] = Append(@, v)]
  ELSE m @@ (key :> <<v>>)

\* m[key] of a Go map of slices: nil (empty) for an absent key.
MapGet(m, key) == IF key \in DOMAIN m THEN m[key] ELSE << >>

Range(q) == {q[i] : i \in 1..Len(q)}

\* A File as ScanFiles and CreateFile make it: no content, links or tags.
\* File.Path is the root joined with RelativePath, so disk[RelativePath] is
\* the file it names; File.Modified is never set and is left out.
NewFile(relPath, name, isDir) ==
  [RelativePath |-> relPath, Name |-> name, IsDir |-> isDir,
   Content |-> Empty, Links |-> << >>, Tags |-> << >>]

\* The File objects some caller holds a pointer to.
Held(th) == {th[t].ptr : t \in Threads} \ {NoPtr}

\* The File v.Files[relPath] points to.
Entry(relPath) == objs[<<relPath, Files[relPath]>>]

\* The objects reachable from the catalog `files` or from a caller: the rest
\* is garbage.
Collect(o, files, th) ==
  [key \in {<<p, files[p]>> : p \in DOMAIN files} \cup Held(th) |-> o[key]]

\* The index of a new File for relPath: the lowest one no caller holds.
FreshK(relPath, held) ==
  CHOOSE k \in 0..NumThreads :
    /\ <<relPath, k>> \notin held
    /\ \A j \in 0..(k - 1) : <<relPath, j>> \in held

(***************************************************************************)
(* ScanFiles                                                               *)
(***************************************************************************)

\* The directories above relative path p: its proper prefixes that end
\* before a "/".
Ancestors(p) == {SubSeq(p, 1, i - 1) : i \in {j \in 1..Len(p) : p[j] = "/"}}

Hidden(name) == HasPrefix(name, <<".">>)

\* Whether filepath.Walk hands entry p to the callback without an error:
\* every directory above it was entered (it exists, is a directory, is not
\* hidden and was listed without an error) and p's own lstat succeeds.
\* `failing` are the entries whose lstat or listing fails during this walk.
Reached(dsk, failing, p) ==
  /\ p \notin failing
  /\ \A a \in Ancestors(p) :
       /\ a \in DOMAIN dsk /\ dsk[a].isDir
       /\ a \notin failing
       /\ ~Hidden(Base(a))

\* The catalog ScanFiles leaves in v.Files, as relPath -> [Name, IsDir].
\* The callback returns nil for an entry reported with an error (the entry is
\* skipped, the walk goes on) and SkipDir for a hidden directory, the root
\* included; it never returns an error, so neither does ScanFiles.
ScanFiles(rt, dsk, failing) ==
  IF Dot \in failing \/ Hidden(rt.name) THEN EmptyMap
  ELSE LET kept == {p \in DOMAIN dsk :
                      /\ Reached(dsk, failing, p)
                      /\ ~Hidden(Base(p))
                      /\ (dsk[p].isDir \/ HasSuffix(ToLower(Base(p)), DotMd))}
       IN  (Dot :> [Name |-> rt.name, IsDir |-> TRUE])
           @@ [p \in kept |-> [Name |-> Base(p), IsDir |-> dsk[p].isDir]]

\* The sets of failing entries a walk can meet.
Failures(dsk) == SUBSET (DOMAIN dsk \cup {Dot})

\* The walk reports an error to the callback: the root fails, or an entry
\* whose directories the walk entered does.
WalkMeetsError(rt, dsk, failing) ==
  \/ Dot \in failing
  \/ /\ ~Hidden(rt.name)
     /\ \E p \in failing \cap DOMAIN dsk : Reached(dsk, failing \ {p}, p)

(***************************************************************************)
(* Initial state                                                           *)
(***************************************************************************)

\* No content known from an earlier ReadFile.
NoRead == [valid |-> FALSE, c |-> Empty]

\* A caller between operations. op, id and ret stay those of the operation
\* that returned last. History fields: exp (the last successful write of the
\* document as known when this ReadFile started), cnt (no WriteFile,
\* CreateFile, DeleteFile or Scan has taken a step on the document since this
\* ReadFile or WriteFile started, and for a WriteFile none was in progress
\* then), flt (the walk of this Scan met a filesystem error), mid (this query
\* was made while a Build held a partly filled private index). shares names
\* the stored slice whose array the returned slice ret.val is backed by:
\* <<"Backlinks", key>> or <<"Tags", key>>, NoPtr for an array of its own.
IdleThread ==
  [pc |-> "idle", op |-> "none", id |-> Empty, arg |-> Empty, ptr |-> NoPtr,
   buf |-> Empty, ret |-> [val |-> Empty, flag |-> FALSE, err |-> "none"],
   exp |-> [valid |-> FALSE, c |-> Empty, solo |-> FALSE], cnt |-> FALSE,
   flt |-> FALSE, mid |-> FALSE, shares |-> NoPtr, made |-> "none",
   seen |-> NoRead]

NoCur == [relPath |-> Empty, links |-> << >>, tags |-> << >>]

\* A goroutine slot not in use. History fields: fresh (no catalog replace
\* since the snapshot), skipped (a document could not be read), unread (the
\* documents that could not be), last (how the
\* goroutine that used the slot last ended: "built", or "noop_active" /
\* "noop_ready" for a request that returned at the flag check).
FreeBuild ==
  [pc |-> "free", files |-> EmptyMap, rem |-> {}, cur |-> NoCur,
   tags |-> EmptyMap, backlinks |-> EmptyMap, fresh |-> FALSE, skipped |-> FALSE,
   unread |-> {},
   last |-> "none"]

NoWrite == [valid |-> FALSE, c |-> Empty, solo |-> FALSE]

\* History: wrote[id] is the content of the last WriteFile(id) that returned
\* success, valid until the next WriteFile, CreateFile or DeleteFile of id or
\* the next Scan starts (solo: no other operation on id was in progress when
\* it returned and none has started since);
\* idxFresh: the published index comes from a snapshot taken after the last
\* catalog replace; idxSkipped: its Build skipped an unreadable document;
\* idxUnread: the documents it skipped;
\* dirty: a WriteFile, CreateFile or DeleteFile has taken a step since the
\* last catalog replace; rescanned: a Scan has returned; openErr: the walk of
\* NewVault met a filesystem error; made[id] is "created" or "deleted" from
\* the return of a successful CreateFile(id) or DeleteFile(id) that no other
\* WriteFile, CreateFile, DeleteFile of id or Scan overlapped, until the next
\* one of these starts (a ReadFile keeps in `made` what it met at its start);
\* read[id] is the content the last successful ReadFile(id) returned, valid
\* until a WriteFile, CreateFile or DeleteFile of id or a Scan takes a step (a
\* ReadFile keeps in `seen` what it met at its start).
InitHist ==
  [wrote |-> [id \in Ids |-> NoWrite],
   made |-> [id \in Ids |-> "none"],
   read |-> [id \in Ids |-> NoRead],
   idxFresh |-> FALSE, idxSkipped |-> FALSE, idxUnread |-> {}, dirty |-> FALSE,
   rescanned |-> FALSE, openErr |-> FALSE]

\* Before NewVault, for a root among `roots` and a tree among `disks`.
InitOn(roots, disks) ==
  /\ root \in roots
  /\ disk \in disks
  /\ opened = "no"
  /\ Files = EmptyMap
  /\ objs = EmptyMap
  /\ Tags = EmptyMap
  /\ Backlinks = EmptyMap
  /\ indexed = FALSE
  /\ indexing = FALSE
  /\ thr = [t \in Threads |-> IdleThread]
  /\ bld = [b \in BuildIds |-> FreeBuild]
  /\ nops = 0
  /\ hist = InitHist

(***************************************************************************)
(* NewVault and BuildIndexAsync                                            *)
(***************************************************************************)

\* The goroutine slots not in use.
FreeSlots(bl) == {b \in BuildIds : bl[b].pc = "free"}

\* go v.BuildIndexAsync(): a new goroutine, at the start of the function.
Spawn(bl) ==
  LET b == CHOOSE x \in FreeSlots(bl) : \A y \in FreeSlots(bl) : x <= y
  IN  [bl EXCEPT ![b] = [FreeBuild EXCEPT !.pc = "start"]]

\* The catalog `cat` (relPath -> [Name, IsDir]) as new File objects, none of
\* them one a caller still holds.
FreshFiles(cat, held) == [p \in DOMAIN cat |-> FreshK(p, held)]

FreshObjs(cat, held) ==
  [key \in {<<p, FreshK(p, held)>> : p \in DOMAIN cat} |->
     NewFile(key[1], cat[key[1]].Name, cat[key[1]].IsDir)]

\* NewVault on a path that is missing or no directory: an error, no Vault.
NewVaultFails ==
  /\ opened = "no"
  /\ root.kind # "dir"
  /\ opened' = "failed"
  /\ UNCHANGED <<root, disk, Files, objs, Tags, Backlinks, indexed, indexing,
                 thr, bld, nops, hist>>

\* A NewVault that returns the scanned vault without go BuildIndexAsync: the
\* variant the start of the first Build is tested against.
NewVault_NoBuild(failing) ==
  /\ opened = "no"
  /\ root.kind = "dir"
  /\ LET cat == ScanFiles(root, disk, failing)
     IN  /\ Files' = FreshFiles(cat, {})
         /\ objs' = FreshObjs(cat, {})
  /\ opened' = "yes"
  /\ hist' = [hist EXCEPT !.openErr = WalkMeetsError(root, disk, failing)]
  /\ UNCHANGED <<root, disk, Tags, Backlinks, indexed, indexing, thr, bld, nops>>

\* NewVault on a directory: ScanFiles, then go BuildIndexAsync. The vault is
\* not shared before NewVault returns, so the two happen in one step.
NewVault(failing) ==
  /\ opened = "no"
  /\ root.kind = "dir"
  /\ LET cat == ScanFiles(root, disk, failing)
     IN  /\ Files' = FreshFiles(cat, {})
         /\ objs' = FreshObjs(cat, {})
  /\ bld' = Spawn(bld)
  /\ opened' = "yes"
  /\ hist' = [hist EXCEPT !.openErr = WalkMeetsError(root, disk, failing)]
  /\ UNCHANGED <<root, disk, Tags, Backlinks, indexed, indexing, thr, nops>>

\* BuildIndexAsync, lines 111-117: the check-and-set of the flags under the
\* exclusive lock. A request that finds a build active or the index ready
\* returns.
\* A check-and-set that looks at v.indexing alone: the variant the exclusion
\* of the two flags is tested against.
BuildCheckAndSet_IgnoresIndexed(b) ==
  /\ bld[b].pc = "start"
  /\ IF indexing
       THEN /\ bld' = [bld EXCEPT ![b] = [FreeBuild EXCEPT !.last = "noop_active"]]
            /\ UNCHANGED indexing
       ELSE /\ indexing' = TRUE
            /\ bld' = [bld EXCEPT ![b].pc = "snapshot"]
  /\ UNCHANGED <<root, disk, opened, Files, objs, Tags, Backlinks, indexed,
                 thr, nops, hist>>

\* A check-and-set that looks at v.indexed alone: the variant the build
\* exclusion is tested against.
BuildCheckAndSet_IgnoresIndexing(b) ==
  /\ bld[b].pc = "start"
  /\ IF indexed
       THEN /\ bld' = [bld EXCEPT ![b] = [FreeBuild EXCEPT !.last = "noop_ready"]]
            /\ UNCHANGED indexing
       ELSE /\ indexing' = TRUE
            /\ bld' = [bld EXCEPT ![b].pc = "snapshot"]
  /\ UNCHANGED <<root, disk, opened, Files, objs, Tags, Backlinks, indexed,
                 thr, nops, hist>>

BuildCheckAndSet(b) ==
  /\ bld[b].pc = "start"
  /\ IF indexing \/ indexed
       THEN /\ bld' = [bld EXCEPT ![b] =
                         [FreeBuild EXCEPT !.last =
                            IF indexing THEN "noop_active" ELSE "noop_ready"]]
            /\ UNCHANGED indexing
       ELSE /\ indexing' = TRUE
            /\ bld' = [bld EXCEPT ![b].pc = "snapshot"]
  /\ UNCHANGED <<root, disk, opened, Files, objs, Tags, Backlinks, indexed,
                 thr, nops, hist>>

\* Lines 119-127: the private maps, and the copy of v.Files under the shared
\* lock. Of a copied *File the loop reads only IsDir and Path.
BuildSnapshot(b) ==
  /\ bld[b].pc = "snapshot"
  /\ bld' = [bld EXCEPT ![b] =
       [FreeBuild EXCEPT !.pc = "loop",
                         !.files = [p \in DOMAIN Files |-> Entry(p).IsDir],
                         !.rem = DOMAIN Files,
                         !.fresh = TRUE]]
  /\ UNCHANGED <<root, disk, opened, Files, objs, Tags, Backlinks, indexed,
                 indexing, thr, nops, hist>>

\* Lines 129-132: the loop takes a directory and goes on. The order of a map
\* range is unspecified: any remaining entry can be next.
BuildSkipDir(b, relPath) ==
  /\ bld[b].pc = "loop"
  /\ relPath \in bld[b].rem
  /\ bld[b].files[relPath]
  /\ bld' = [bld EXCEPT ![b].rem = @ \ {relPath}]
  /\ UNCHANGED <<root, disk, opened, Files, objs, Tags, Backlinks, indexed,
                 indexing, thr, nops, hist>>

\* os.ReadFile succeeds on a regular file that exists, unless the read fails.
Readable(dsk, relPath) == relPath \in DOMAIN dsk /\ ~dsk[relPath].isDir

\* A Build that leaves the loop at the first document it cannot read: the
\* variant the skipping of unreadable documents is tested against.
BuildRead_StopsOnError(b, relPath, ok) ==
  /\ bld[b].pc = "loop"
  /\ relPath \in bld[b].rem
  /\ ~bld[b].files[relPath]
  /\ IF ok /\ Readable(disk, relPath)
       THEN bld' = [bld EXCEPT ![b].pc = "store",
                               ![b].cur = [relPath |-> relPath,
                                           links |-> ExtractAllLinks(disk[relPath].data),
                                           tags |-> ExtractUniqueTags(disk[relPath].data)]]
       ELSE bld' = [bld EXCEPT ![b].rem = {}, ![b].skipped = TRUE,
                               ![b].unread = @ \cup {relPath}]
  /\ UNCHANGED <<root, disk, opened, Files, objs, Tags, Backlinks, indexed,
                 indexing, thr, nops, hist>>

\* A Build that takes the exclusive lock before it reads the document and
\* stores the links and tags on the entry at once: the variant the lock-free
\* file reads of the Build are tested against.
BuildRead_UnderLock(b, relPath, ok) ==
  /\ bld[b].pc = "loop"
  /\ relPath \in bld[b].rem
  /\ ~bld[b].files[relPath]
  /\ IF ok /\ Readable(disk, relPath)
       THEN /\ bld' = [bld EXCEPT ![b].pc = "store",
                                  ![b].cur = [relPath |-> relPath,
                                              links |-> ExtractAllLinks(disk[relPath].data),
                                              tags |-> ExtractUniqueTags(disk[relPath].data)]]
            /\ objs' = IF relPath \in DOMAIN Files
                         THEN [objs EXCEPT ![<<relPath, Files[relPath]>>] =
                                 [@ EXCEPT !.Links = ExtractAllLinks(disk[relPath].data),
                                           !.Tags = ExtractUniqueTags(disk[relPath].data)]]
                         ELSE objs
       ELSE /\ bld' = [bld EXCEPT ![b].rem = @ \ {relPath}, ![b].skipped = TRUE,
                                  ![b].unread = @ \cup {relPath}]
            /\ objs' = objs
  /\ UNCHANGED <<root, disk, opened, Files, Tags, Backlinks, indexed,
                 indexing, thr, nops, hist>>

\* Lines 134-141: os.ReadFile of the document, without the lock, and the
\* extraction. A read that fails (ok false, or no such file) skips it.
BuildRead(b, relPath, ok) ==
  /\ bld[b].pc = "loop"
  /\ relPath \in bld[b].rem
  /\ ~bld[b].files[relPath]
  /\ IF ok /\ Readable(disk, relPath)
       THEN bld' = [bld EXCEPT ![b].pc = "store",
                               ![b].cur = [relPath |-> relPath,
                                           links |-> ExtractAllLinks(disk[relPath].data),
                                           tags |-> ExtractUniqueTags(disk[relPath].data)]]
       ELSE bld' = [bld EXCEPT ![b].rem = @ \ {relPath}, ![b].skipped = TRUE,
                               ![b].unread = @ \cup {relPath}]
  /\ UNCHANGED <<root, disk, opened, Files, objs, Tags, Backlinks, indexed,
                 indexing, thr, nops, hist>>

\* A fold that leaves the last tag of the document out: the variant the tag
\* index completeness is tested against.
RECURSIVE FoldTags_SkipsLast(_, _, _)
FoldTags_SkipsLast(tags, fileTags, relPath) ==
  IF Len(fileTags) <= 1 THEN tags
  ELSE FoldTags_SkipsLast(MapAppend(tags, Head(fileTags), relPath), Tail(fileTags),
                          relPath)

\* tags[tag] = append(tags[tag], relPath) for every tag of the document.
RECURSIVE FoldTags(_, _, _)
FoldTags(tags, fileTags, relPath) ==
  IF Len(fileTags) = 0 THEN tags
  ELSE FoldTags(MapAppend(tags, Head(fileTags), relPath), Tail(fileTags), relPath)

\* A fold that files the source under the target of every link, wiki-style
\* or not: the variant the backlink symmetry is tested against.
RECURSIVE FoldBacklinks_AllLinks(_, _, _, _, _)
FoldBacklinks_AllLinks(backlinks, links, pick, i, relPath) ==
  IF i > Len(links) THEN backlinks
  ELSE IF pick[i] # Empty
    THEN FoldBacklinks_AllLinks(MapAppend(backlinks, pick[i], relPath), links, pick,
                                i + 1, relPath)
  ELSE FoldBacklinks_AllLinks(backlinks, links, pick, i + 1, relPath)

\* Lines 154-162: for every wiki link in order, the target found by
\* findFileInternal, pick[i] for link i, is appended to unless it is "".
RECURSIVE FoldBacklinks(_, _, _, _, _)
FoldBacklinks(backlinks, links, pick, i, relPath) ==
  IF i > Len(links) THEN backlinks
  ELSE IF links[i].IsWikiLink /\ pick[i] # Empty
    THEN FoldBacklinks(MapAppend(backlinks, pick[i], relPath), links, pick, i + 1, relPath)
  ELSE FoldBacklinks(backlinks, links, pick, i + 1, relPath)

\* What findFileInternal can return for each link of `links`, in the snapshot
\* with keys `keys`.
Picks(links, keys, relPath) ==
  {pick \in [1..Len(links) -> keys \cup {Empty}] :
     \A i \in 1..Len(links) :
       pick[i] \in findFileInternal(keys,
                     ResolveWikiLink(links[i].Target, Dir(relPath), root.name))}

\* A store that also appends the tags to the published v.Tags: the variant
\* the whole-index swap is tested against.
BuildStore_PublishesEarly(b) ==
  /\ bld[b].pc = "store"
  /\ LET cur == bld[b].cur
     IN  /\ objs' = IF cur.relPath \in DOMAIN Files
                      THEN [objs EXCEPT ![<<cur.relPath, Files[cur.relPath]>>] =
                              [@ EXCEPT !.Links = cur.links, !.Tags = cur.tags]]
                      ELSE objs
         /\ Tags' = FoldTags(Tags, cur.tags, cur.relPath)
         /\ \E pick \in Picks(cur.links, DOMAIN bld[b].files, cur.relPath) :
              bld' = [bld EXCEPT
                ![b].pc = "loop",
                ![b].cur = NoCur,
                ![b].rem = @ \ {cur.relPath},
                ![b].tags = FoldTags(@, cur.tags, cur.relPath),
                ![b].backlinks = FoldBacklinks(@, cur.links, pick, 1, cur.relPath)]
  /\ UNCHANGED <<root, disk, opened, Files, Backlinks, indexed, indexing,
                 thr, nops, hist>>

\* Lines 143-162: under the exclusive lock the links and tags are stored on
\* the File that v.Files holds for relPath now, when it holds one; then the
\* tags and the resolved wiki links are added to the private maps.
BuildStore(b) ==
  /\ bld[b].pc = "store"
  /\ LET cur == bld[b].cur
     IN  /\ objs' = IF cur.relPath \in DOMAIN Files
                      THEN [objs EXCEPT ![<<cur.relPath, Files[cur.relPath]>>] =
                              [@ EXCEPT !.Links = cur.links, !.Tags = cur.tags]]
                      ELSE objs
         /\ \E pick \in Picks(cur.links, DOMAIN bld[b].files, cur.relPath) :
              bld' = [bld EXCEPT
                ![b].pc = "loop",
                ![b].cur = NoCur,
                ![b].rem = @ \ {cur.relPath},
                ![b].tags = FoldTags(@, cur.tags, cur.relPath),
                ![b].backlinks = FoldBacklinks(@, cur.links, pick, 1, cur.relPath)]
  /\ UNCHANGED <<root, disk, opened, Files, Tags, Backlinks, indexed, indexing,
                 thr, nops, hist>>

\* A Build that gives up at the end when the catalog was replaced under it,
\* clearing v.indexing and installing nothing: the variant the completion of
\* every Build is tested against.
BuildCommit_DropsStale(b) ==
  /\ bld[b].pc = "loop"
  /\ bld[b].rem = {}
  /\ Tags' = IF bld[b].fresh THEN bld[b].tags ELSE Tags
  /\ Backlinks' = IF bld[b].fresh THEN bld[b].backlinks ELSE Backlinks
  /\ indexed' = IF bld[b].fresh THEN TRUE ELSE indexed
  /\ indexing' = FALSE
  /\ hist' = IF bld[b].fresh
               THEN [hist EXCEPT !.idxFresh = TRUE, !.idxSkipped = bld[b].skipped,
                                 !.idxUnread = bld[b].unread]
               ELSE hist
  /\ bld' = [bld EXCEPT ![b] = [FreeBuild EXCEPT !.last = "built"]]
  /\ UNCHANGED <<root, disk, opened, Files, objs, thr, nops>>

\* Lines 165-170: under the exclusive lock the finished maps are installed
\* and the flags set; the goroutine ends.
BuildCommit(b) ==
  /\ bld[b].pc = "loop"
  /\ bld[b].rem = {}
  /\ Tags' = bld[b].tags
  /\ Backlinks' = bld[b].backlinks
  /\ indexed' = TRUE
  /\ indexing' = FALSE
  /\ hist' = [hist EXCEPT !.idxFresh = bld[b].fresh, !.idxSkipped = bld[b].skipped,
                          !.idxUnread = bld[b].unread]
  /\ bld' = [bld EXCEPT ![b] = [FreeBuild EXCEPT !.last = "built"]]
  /\ UNCHANGED <<root, disk, opened, Files, objs, thr, nops>>

(***************************************************************************)
(* The callers' operations                                                 *)
(***************************************************************************)

\* A caller can start an operation. Callers are interchangeable: the next
\* operation starts on the lowest idle one.
CanStart(t) ==
  /\ opened = "yes"
  /\ thr[t].pc = "idle"
  /\ \A u \in Threads : u < t => thr[u].pc # "idle"
  /\ nops < MaxOps

\* Caller t inside operation op on id.
Begin(t, op, id, arg, pc, ptr) ==
  [IdleThread EXCEPT !.pc = pc, !.op = op, !.id = id, !.arg = arg, !.ptr = ptr]

\* Caller t returns (val, err), or flag for a boolean result.
Return(th, t, val, flag, err) ==
  [th EXCEPT ![t].pc = "idle", ![t].ptr = NoPtr, ![t].buf = Empty, ![t].arg = Empty,
             ![t].cnt = FALSE,
             ![t].ret = [val |-> val, flag |-> flag, err |-> err]]

\* History: an operation that changes the entries of the ids in S starts.
\* What was known of their last write ends, also for the ReadFile calls in
\* progress on them.
DisturbHist(h, S) ==
  [h EXCEPT !.wrote = [id \in Ids |-> IF id \in S THEN NoWrite ELSE @[id]],
            !.made = [id \in Ids |-> IF id \in S THEN "none" ELSE @[id]],
            !.read = [id \in Ids |-> IF id \in S THEN NoRead ELSE @[id]],
            !.dirty = TRUE]

DisturbThreads(th, S) ==
  [t \in Threads |->
     IF th[t].id \in S /\ th[t].pc # "idle"
       THEN [th[t] EXCEPT !.exp = NoWrite, !.cnt = FALSE, !.made = "none",
                          !.seen = NoRead]
       ELSE th[t]]

\* Some other caller than t is inside one of the operations `ops` on id, or
\* inside Scan.
OthersIn(t, ops, id) ==
  \E u \in Threads \ {t} :
    /\ thr[u].pc # "idle"
    /\ \/ thr[u].op = "Scan"
       \/ thr[u].op \in ops /\ thr[u].id = id

Mutators == {"WriteFile", "CreateFile", "DeleteFile"}

\* ReadFile, lines 204-210: the lookup under the shared lock.
ReadFile(t, id) ==
  /\ CanStart(t)
  /\ nops' = nops + 1
  /\ IF id \in DOMAIN Files
       THEN /\ thr' = [[u \in Threads |->
                         IF u # t /\ thr[u].pc # "idle" /\ thr[u].id = id
                           THEN [thr[u] EXCEPT !.exp.solo = FALSE] ELSE thr[u]]
                       EXCEPT ![t] =
                         [Begin(t, "ReadFile", id, Empty, "rf_check", <<id, Files[id]>>)
                            EXCEPT !.exp = hist.wrote[id], !.cnt = TRUE,
                                   !.made = hist.made[id],
                                   !.seen = hist.read[id]]]
            /\ hist' = [hist EXCEPT !.wrote[id].solo = FALSE]
       ELSE /\ thr' = [thr EXCEPT ![t] =
                         [Begin(t, "ReadFile", id, Empty, "idle", NoPtr)
                            EXCEPT !.ret = [val |-> Empty, flag |-> FALSE,
                                            err |-> "ErrNotExist"],
                                   !.made = hist.made[id]]]
            /\ hist' = hist
  /\ UNCHANGED <<root, disk, opened, Files, objs, Tags, Backlinks, indexed,
                 indexing, bld>>

\* Line 212: file.Content != "", read without the lock.
ReadFileCheck(t) ==
  /\ thr[t].pc = "rf_check"
  /\ thr' = [thr EXCEPT ![t].pc =
               IF objs[thr[t].ptr].Content # Empty THEN "rf_hit" ELSE "rf_disk"]
  /\ UNCHANGED <<root, disk, opened, Files, objs, Tags, Backlinks, indexed,
                 indexing, bld, nops, hist>>

\* Line 213: return file.Content, read again without the lock.
ReadFileHit(t) ==
  /\ thr[t].pc = "rf_hit"
  /\ thr' = Return(thr, t, objs[thr[t].ptr].Content, FALSE, "nil")
  /\ objs' = Collect(objs, Files, thr')
  /\ hist' = [hist EXCEPT !.read[thr[t].id] =
                [valid |-> TRUE, c |-> objs[thr[t].ptr].Content]]
  /\ UNCHANGED <<root, disk, opened, Files, Tags, Backlinks, indexed, indexing,
                 bld, nops>>

\* Lines 216-219: os.ReadFile without the lock; an error is returned.
ReadFileDisk(t, ok) ==
  /\ thr[t].pc = "rf_disk"
  /\ IF ok /\ Readable(disk, thr[t].ptr[1])
       THEN /\ thr' = [thr EXCEPT ![t].pc = "rf_fill",
                                  ![t].buf = disk[thr[t].ptr[1]].data]
            /\ objs' = objs
       ELSE /\ thr' = Return(thr, t, Empty, FALSE, "IOError")
            /\ objs' = Collect(objs, Files, thr')
  /\ UNCHANGED <<root, disk, opened, Files, Tags, Backlinks, indexed, indexing,
                 bld, nops, hist>>

\* A ReadFile that still holds the shared lock of its lookup when it asks
\* for the exclusive lock: the request waits for its own release and is
\* never granted. The variant the lock protocol is tested against.
ReadFileFill_HoldsShared(t) ==
  /\ thr[t].pc = "rf_fill"
  /\ FALSE
  /\ UNCHANGED vars

\* Lines 221-223: the cache fill under the exclusive lock.
ReadFileFill(t) ==
  /\ thr[t].pc = "rf_fill"
  /\ objs' = [objs EXCEPT ![thr[t].ptr].Content = thr[t].buf]
  /\ thr' = [thr EXCEPT ![t].pc = "rf_ret"]
  /\ UNCHANGED <<root, disk, opened, Files, Tags, Backlinks, indexed, indexing,
                 bld, nops, hist>>

\* Line 225: return file.Content, read after the lock is released.
ReadFileReturn(t) ==
  /\ thr[t].pc = "rf_ret"
  /\ thr' = Return(thr, t, objs[thr[t].ptr].Content, FALSE, "nil")
  /\ objs' = Collect(objs, Files, thr')
  /\ hist' = [hist EXCEPT !.read[thr[t].id] =
                [valid |-> TRUE, c |-> objs[thr[t].ptr].Content]]
  /\ UNCHANGED <<root, disk, opened, Files, Tags, Backlinks, indexed, indexing,
                 bld, nops>>

\* WriteFile, lines 229-235: the lookup under the shared lock.
WriteFile(t, id, content) ==
  /\ CanStart(t)
  /\ nops' = nops + 1
  /\ IF id \in DOMAIN Files
       THEN thr' = [DisturbThreads(thr, {id}) EXCEPT ![t] =
                      [Begin(t, "WriteFile", id, content, "wf_disk", <<id, Files[id]>>)
                         EXCEPT !.cnt = ~OthersIn(t, Mutators, id)]]
       ELSE thr' = [DisturbThreads(thr, {id}) EXCEPT ![t] =
                      [Begin(t, "WriteFile", id, Empty, "idle", NoPtr)
                         EXCEPT !.ret = [val |-> Empty, flag |-> FALSE,
                                         err |-> "ErrNotExist"]]]
  /\ hist' = DisturbHist(hist, {id})
  /\ UNCHANGED <<root, disk, opened, Files, objs, Tags, Backlinks, indexed,
                 indexing, bld>>

\* The directories above relPath all exist.
ParentsExist(dsk, relPath) ==
  \A a \in Ancestors(relPath) : a \in DOMAIN dsk /\ dsk[a].isDir

\* os.WriteFile and os.Create can open relPath for writing.
Writable(dsk, relPath) ==
  /\ ParentsExist(dsk, relPath)
  /\ relPath \in DOMAIN dsk => ~dsk[relPath].isDir

\* dsk with relPath a regular file holding data.
PutFile(dsk, relPath, data) ==
  [p \in DOMAIN dsk \cup {relPath} |->
     IF p = relPath THEN RegularFile(data) ELSE dsk[p]]

\* Lines 237-239: os.WriteFile without the lock; an error is returned.
WriteFileDisk(t, ok) ==
  /\ thr[t].pc = "wf_disk"
  /\ IF ok /\ Writable(disk, thr[t].ptr[1])
       THEN /\ disk' = PutFile(disk, thr[t].ptr[1], thr[t].arg)
            /\ thr' = [DisturbThreads(thr, {thr[t].id}) EXCEPT ![t] =
                         [thr[t] EXCEPT !.pc = "wf_update"]]
            /\ objs' = objs
       ELSE /\ disk' = disk
            /\ thr' = Return(DisturbThreads(thr, {thr[t].id}), t, Empty, FALSE, "IOError")
            /\ objs' = Collect(objs, Files, thr')
  /\ hist' = DisturbHist(hist, {thr[t].id})
  /\ UNCHANGED <<root, opened, Files, Tags, Backlinks, indexed, indexing, bld, nops>>

\* An update that also files the document under its new tags in the published
\* v.Tags: the variant the frame of WriteFile is tested against.
WriteFileUpdate_UpdatesIndex(t) ==
  /\ thr[t].pc = "wf_update"
  /\ LET id == thr[t].id
         current == id \in DOMAIN Files /\ thr[t].ptr = <<id, Files[id]>>
         known == current /\ thr[t].cnt
     IN  /\ thr' = Return(DisturbThreads(thr, {id}), t, Empty, FALSE, "nil")
         /\ objs' = Collect([objs EXCEPT ![thr[t].ptr] =
                               [@ EXCEPT !.Content = thr[t].arg,
                                         !.Links = ExtractAllLinks(thr[t].arg),
                                         !.Tags = ExtractUniqueTags(thr[t].arg)]],
                            Files, thr')
         /\ Tags' = FoldTags(Tags, ExtractUniqueTags(thr[t].arg), id)
         /\ hist' = [DisturbHist(hist, {id}) EXCEPT !.wrote[id] =
                       IF known
                         THEN [valid |-> TRUE, c |-> thr[t].arg,
                               solo |-> ~OthersIn(t, Mutators \cup {"ReadFile"}, id)]
                         ELSE NoWrite]
  /\ UNCHANGED <<root, disk, opened, Files, Backlinks, indexed, indexing,
                 bld, nops>>

\* An update that leaves file.Content as it was: the variant the write/read
\* round trip is tested against.
WriteFileUpdate_KeepsContent(t) ==
  /\ thr[t].pc = "wf_update"
  /\ LET id == thr[t].id
         current == id \in DOMAIN Files /\ thr[t].ptr = <<id, Files[id]>>
         known == current /\ thr[t].cnt
     IN  /\ thr' = Return(DisturbThreads(thr, {id}), t, Empty, FALSE, "nil")
         /\ objs' = Collect([objs EXCEPT ![thr[t].ptr] =
                               [@ EXCEPT !.Links = ExtractAllLinks(thr[t].arg),
                                         !.Tags = ExtractUniqueTags(thr[t].arg)]],
                            Files, thr')
         /\ hist' = [DisturbHist(hist, {id}) EXCEPT !.wrote[id] =
                       IF known
                         THEN [valid |-> TRUE, c |-> thr[t].arg,
                               solo |-> ~OthersIn(t, Mutators \cup {"ReadFile"}, id)]
                         ELSE NoWrite]
  /\ UNCHANGED <<root, disk, opened, Files, Tags, Backlinks, indexed, indexing,
                 bld, nops>>

\* Lines 241-248: under the exclusive lock the content is cached and the
\* links and tags of that one File are extracted again.
WriteFileUpdate(t) ==
  /\ thr[t].pc = "wf_update"
  /\ LET id == thr[t].id
         current == id \in DOMAIN Files /\ thr[t].ptr = <<id, Files[id]>>
         known == current /\ thr[t].cnt
     IN  /\ thr' = Return(DisturbThreads(thr, {id}), t, Empty, FALSE, "nil")
         /\ objs' = Collect([objs EXCEPT ![thr[t].ptr] =
                               [@ EXCEPT !.Content = thr[t].arg,
                                         !.Links = ExtractAllLinks(thr[t].arg),
                                         !.Tags = ExtractUniqueTags(thr[t].arg)]],
                            Files, thr')
         /\ hist' = [DisturbHist(hist, {id}) EXCEPT !.wrote[id] =
                       IF known
                         THEN [valid |-> TRUE, c |-> thr[t].arg,
                               solo |-> ~OthersIn(t, Mutators \cup {"ReadFile"}, id)]
                         ELSE NoWrite]
  /\ UNCHANGED <<root, disk, opened, Files, Tags, Backlinks, indexed, indexing,
                 bld, nops>>

\* Scan, line 193: ScanFiles. The exclusive lock is held from the replacement
\* of v.Files to the end of the walk, so the catalog changes in one step;
\* ScanFiles returns no error (see ScanFiles above).
Scan(t, failing) ==
  /\ CanStart(t)
  /\ nops' = nops + 1
  /\ thr' = [DisturbThreads(thr, Ids) EXCEPT ![t] =
               [Begin(t, "Scan", Empty, Empty, "sc_flag", NoPtr)
                  EXCEPT !.flt = WalkMeetsError(root, disk, failing)]]
  /\ LET cat == ScanFiles(root, disk, failing)
     IN  /\ Files' = FreshFiles(cat, Held(thr'))
         /\ objs' = Collect(FreshObjs(cat, Held(thr')) @@ objs, Files', thr')
  /\ bld' = [b \in BuildIds |-> [bld[b] EXCEPT !.fresh = FALSE]]
  /\ hist' = [DisturbHist(hist, Ids) EXCEPT !.idxFresh = FALSE, !.dirty = FALSE]
  /\ UNCHANGED <<root, disk, opened, Tags, Backlinks, indexed, indexing>>

\* Scan, lines 196-200: indexed = false under the exclusive lock, then
\* go BuildIndexAsync, and the return.
ScanFlag(t) ==
  /\ thr[t].pc = "sc_flag"
  /\ indexed' = FALSE
  /\ bld' = Spawn(bld)
  /\ thr' = Return(thr, t, Empty, FALSE, "nil")
  /\ hist' = [hist EXCEPT !.rescanned = TRUE]
  /\ UNCHANGED <<root, disk, opened, Files, objs, Tags, Backlinks, indexing, nops>>

\* dsk with every missing directory above relPath made: os.MkdirAll.
MkdirAll(dsk, relPath) ==
  [p \in DOMAIN dsk \cup Ancestors(relPath) |->
     IF p \in DOMAIN dsk THEN dsk[p] ELSE Directory]

\* os.MkdirAll succeeds: nothing above relPath is a regular file.
CanMkdirAll(dsk, relPath) ==
  \A a \in Ancestors(relPath) : a \in DOMAIN dsk => dsk[a].isDir

\* CreateFile, lines 327-338: os.MkdirAll and os.Create, without the lock.
\* os.Create truncates a file that exists.
CreateFile(t, relPath, ok) ==
  /\ CanStart(t)
  /\ nops' = nops + 1
  /\ IF ok /\ CanMkdirAll(disk, relPath) /\ Writable(MkdirAll(disk, relPath), relPath)
       THEN /\ disk' = PutFile(MkdirAll(disk, relPath), relPath, Empty)
            /\ thr' = [DisturbThreads(thr, {relPath}) EXCEPT ![t] =
                         [Begin(t, "CreateFile", relPath, Empty, "cf_update", NoPtr)
                            EXCEPT !.cnt = ~OthersIn(t, Mutators, relPath)]]
       ELSE /\ disk' = disk
            /\ thr' = [DisturbThreads(thr, {relPath}) EXCEPT ![t] =
                         [Begin(t, "CreateFile", relPath, Empty, "idle", NoPtr)
                            EXCEPT !.ret = [val |-> Empty, flag |-> FALSE,
                                            err |-> "IOError"]]]
  /\ hist' = DisturbHist(hist, {relPath})
  /\ UNCHANGED <<root, opened, Files, objs, Tags, Backlinks, indexed, indexing, bld>>

\* A CreateFile that leaves an entry that is already in v.Files as it is: the
\* variant the visibility of a created document is tested against.
CreateFileUpdate_KeepsEntry(t) ==
  /\ thr[t].pc = "cf_update"
  /\ LET relPath == thr[t].id
         k == IF relPath \in DOMAIN Files THEN Files[relPath]
              ELSE FreshK(relPath, Held(thr))
     IN  /\ Files' = [p \in DOMAIN Files \cup {relPath} |->
                        IF p = relPath THEN k ELSE Files[p]]
         /\ thr' = Return(DisturbThreads(thr, {relPath}), t, Empty, FALSE, "nil")
         /\ objs' = Collect(IF relPath \in DOMAIN Files THEN objs
                            ELSE (<<relPath, k>> :> NewFile(relPath, Base(relPath), FALSE)) @@ objs,
                            Files', thr')
         /\ hist' = [DisturbHist(hist, {relPath}) EXCEPT !.made[relPath] =
                       IF thr[t].cnt THEN "created" ELSE "none"]
  /\ UNCHANGED <<root, disk, opened, Tags, Backlinks, indexed, indexing, bld, nops>>

\* Lines 340-349: under the exclusive lock v.Files[relPath] becomes a new File.
CreateFileUpdate(t) ==
  /\ thr[t].pc = "cf_update"
  /\ LET relPath == thr[t].id
         k == FreshK(relPath, Held(thr))
     IN  /\ Files' = [p \in DOMAIN Files \cup {relPath} |->
                        IF p = relPath THEN k ELSE Files[p]]
         /\ thr' = Return(DisturbThreads(thr, {relPath}), t, Empty, FALSE, "nil")
         /\ objs' = Collect((<<relPath, k>> :> NewFile(relPath, Base(relPath), FALSE)) @@ objs,
                            Files', thr')
         /\ hist' = [DisturbHist(hist, {relPath}) EXCEPT !.made[relPath] =
                       IF thr[t].cnt THEN "created" ELSE "none"]
  /\ UNCHANGED <<root, disk, opened, Tags, Backlinks, indexed, indexing, bld, nops>>

\* DeleteFile, lines 353-359: the lookup under the shared lock.
DeleteFile(t, id) ==
  /\ CanStart(t)
  /\ nops' = nops + 1
  /\ IF id \in DOMAIN Files
       THEN thr' = [DisturbThreads(thr, {id}) EXCEPT ![t] =
                      [Begin(t, "DeleteFile", id, Empty, "df_disk", NoPtr)
                         EXCEPT !.cnt = ~OthersIn(t, Mutators, id)]]
       ELSE thr' = [DisturbThreads(thr, {id}) EXCEPT ![t] =
                      [Begin(t, "DeleteFile", id, Empty, "idle", NoPtr)
                         EXCEPT !.ret = [val |-> Empty, flag |-> FALSE,
                                         err |-> "ErrNotExist"]]]
  /\ hist' = DisturbHist(hist, {id})
  /\ UNCHANGED <<root, disk, opened, Files, objs, Tags, Backlinks, indexed,
                 indexing, bld>>

\* os.Remove succeeds on a file, or an empty directory, that exists.
Removable(dsk, relPath) ==
  /\ relPath \in DOMAIN dsk
  /\ \A p \in DOMAIN dsk : relPath \notin Ancestors(p)

\* A DeleteFile that takes the entry out of v.Files before it knows whether
\* os.Remove worked: the variant the error paths are tested against.
DeleteFileDisk_ForgetsOnError(t, ok) ==
  /\ thr[t].pc = "df_disk"
  /\ IF ok /\ Removable(disk, thr[t].id)
       THEN /\ disk' = [p \in DOMAIN disk \ {thr[t].id} |-> disk[p]]
            /\ thr' = [DisturbThreads(thr, {thr[t].id}) EXCEPT ![t] =
                         [thr[t] EXCEPT !.pc = "df_update"]]
            /\ Files' = Files
            /\ objs' = objs
       ELSE /\ disk' = disk
            /\ thr' = Return(DisturbThreads(thr, {thr[t].id}), t, Empty, FALSE, "IOError")
            /\ Files' = [p \in DOMAIN Files \ {thr[t].id} |-> Files[p]]
            /\ objs' = Collect(objs, Files', thr')
  /\ hist' = DisturbHist(hist, {thr[t].id})
  /\ UNCHANGED <<root, opened, Tags, Backlinks, indexed, indexing, bld, nops>>

\* Lines 361-363: os.Remove without the lock; an error is returned.
DeleteFileDisk(t, ok) ==
  /\ thr[t].pc = "df_disk"
  /\ IF ok /\ Removable(disk, thr[t].id)
       THEN /\ disk' = [p \in DOMAIN disk \ {thr[t].id} |-> disk[p]]
            /\ thr' = [DisturbThreads(thr, {thr[t].id}) EXCEPT ![t] =
                         [thr[t] EXCEPT !.pc = "df_update"]]
       ELSE /\ disk' = disk
            /\ thr' = Return(DisturbThreads(thr, {thr[t].id}), t, Empty, FALSE, "IOError")
  /\ hist' = DisturbHist(hist, {thr[t].id})
  /\ UNCHANGED <<root, opened, Files, objs, Tags, Backlinks, indexed, indexing,
                 bld, nops>>

\* Lines 365-369: delete(v.Files, relPath) under the exclusive lock.
DeleteFileUpdate(t) ==
  /\ thr[t].pc = "df_update"
  /\ Files' = [p \in DOMAIN Files \ {thr[t].id} |-> Files[p]]
  /\ thr' = Return(DisturbThreads(thr, {thr[t].id}), t, Empty, FALSE, "nil")
  /\ objs' = Collect(objs, Files', thr')
  /\ hist' = [DisturbHist(hist, {thr[t].id}) EXCEPT !.made[thr[t].id] =
                IF thr[t].cnt THEN "deleted" ELSE "none"]
  /\ UNCHANGED <<root, disk, opened, Tags, Backlinks, indexed, indexing, bld, nops>>

\* Some Build holds a private index that is partly filled.
MidBuild ==
  \E b \in BuildIds :
    /\ bld[b].pc \in {"loop", "store"}
    /\ bld[b].rem # {}
    /\ bld[b].tags # EmptyMap \/ bld[b].backlinks # EmptyMap

\* A GetBacklinks that sorts v.Backlinks[relPath] itself and returns it: the
\* variant the defensive copy is tested against.
GetBacklinks_ReturnsStored(t, relPath) ==
  /\ CanStart(t)
  /\ nops' = nops + 1
  /\ thr' = [thr EXCEPT ![t] =
       [Begin(t, "GetBacklinks", relPath, Empty, "idle", NoPtr)
          EXCEPT !.ret = [val |-> SortStrings(MapGet(Backlinks, relPath)),
                          flag |-> FALSE, err |-> "nil"],
                 !.mid = MidBuild,
                 !.shares = IF relPath \in DOMAIN Backlinks
                              THEN <<"Backlinks", relPath>> ELSE NoPtr]]
  /\ Backlinks' = IF relPath \in DOMAIN Backlinks
                    THEN [Backlinks EXCEPT ![relPath] = SortStrings(@)]
                    ELSE Backlinks
  /\ UNCHANGED <<root, disk, opened, Files, objs, Tags, indexed, indexing, bld, hist>>

\* GetBacklinks: a sorted copy of v.Backlinks[relPath], under the shared lock.
\* The copy is made into a new array (make, line 278) and the sort works on
\* that array.
GetBacklinks(t, relPath) ==
  /\ CanStart(t)
  /\ nops' = nops + 1
  /\ thr' = [thr EXCEPT ![t] =
       [Begin(t, "GetBacklinks", relPath, Empty, "idle", NoPtr)
          EXCEPT !.ret = [val |-> SortStrings(MapGet(Backlinks, relPath)),
                          flag |-> FALSE, err |-> "nil"],
                 !.mid = MidBuild]]
  /\ UNCHANGED <<root, disk, opened, Files, objs, Tags, Backlinks, indexed,
                 indexing, bld, hist>>

\* GetFilesWithTag: a sorted copy of v.Tags[tag], under the shared lock.
GetFilesWithTag(t, tag) ==
  /\ CanStart(t)
  /\ nops' = nops + 1
  /\ thr' = [thr EXCEPT ![t] =
       [Begin(t, "GetFilesWithTag", tag, Empty, "idle", NoPtr)
          EXCEPT !.ret = [val |-> SortStrings(MapGet(Tags, tag)),
                          flag |-> FALSE, err |-> "nil"],
                 !.mid = MidBuild]]
  /\ UNCHANGED <<root, disk, opened, Files, objs, Tags, Backlinks, indexed,
                 indexing, bld, hist>>

\* IsIndexed: v.indexed under the shared lock.
IsIndexed(t) ==
  /\ CanStart(t)
  /\ nops' = nops + 1
  /\ thr' = [thr EXCEPT ![t] =
       [Begin(t, "IsIndexed", Empty, Empty, "idle", NoPtr)
          EXCEPT !.ret = [val |-> Empty, flag |-> indexed, err |-> "nil"]]]
  /\ UNCHANGED <<root, disk, opened, Files, objs, Tags, Backlinks, indexed,
                 indexing, bld, hist>>

\* The caller of GetBacklinks or GetFilesWithTag overwrites the first element
\* of the slice it was returned. The write goes to the array behind the
\* slice: to the stored slice as well when the two share it.
CallerMutates(t) ==
  /\ thr[t].pc = "idle"
  /\ thr[t].op \in {"GetBacklinks", "GetFilesWithTag"}
  /\ thr[t].ret.val # << >>
  /\ thr[t].ret.val[1] # Empty
  /\ thr' = [thr EXCEPT ![t].ret.val[1] = Empty]
  /\ Backlinks' = IF thr[t].shares # NoPtr /\ thr[t].shares[1] = "Backlinks"
                      /\ thr[t].shares[2] \in DOMAIN Backlinks
                    THEN [Backlinks EXCEPT ![thr[t].shares[2]][1] = Empty]
                    ELSE Backlinks
  /\ Tags' = IF thr[t].shares # NoPtr /\ thr[t].shares[1] = "Tags"
                 /\ thr[t].shares[2] \in DOMAIN Tags
               THEN [Tags EXCEPT ![thr[t].shares[2]][1] = Empty]
               ELSE Tags
  /\ UNCHANGED <<root, disk, opened, Files, objs, indexed, indexing, bld, nops, hist>>

\* The elements of the set S of strings as a sequence in the order of
\* sort.Strings.
RECURSIVE SortedSeq(_)
SortedSeq(S) ==
  IF S = {} THEN << >>
  ELSE LET x == CHOOSE y \in S : TRUE
       IN  SortedInsert(SortedSeq(S \ {x}), x)

\* What the v.ReadFile(relPath) of Search returns for a catalogued document
\* nothing else works on: the cached content if there is one, else what is on
\* disk, else "" (the error is dropped, line 316).
ContentRead(relPath) ==
  IF Entry(relPath).Content # Empty THEN Entry(relPath).Content
  ELSE IF Readable(disk, relPath) THEN disk[relPath].data
  ELSE Empty

\* Line 311: the lowered name of the entry contains the lowered query.
NameMatches(relPath, query) ==
  Contains(ToLower(Entry(relPath).Name), query)

\* A match on the content as it is, not lowered: the variant the search is
\* tested against.
TextMatches_CaseSensitive(relPath, query) ==
  Contains(ContentRead(relPath), query)

\* Lines 316-317: the lowered content contains the lowered query.
TextMatches(relPath, query) ==
  Contains(ToLower(ContentRead(relPath)), query)

\* Search: the snapshot of v.Files under the shared lock, then for every entry
\* that is no directory the match on the name and, failing that, on the
\* content ReadFile returns, which ReadFile caches; the matches sorted. No
\* caller writes a document in the scenarios with Search, where the steps of
\* the loop commute with every other step: the call is one step.
Search(t, query) ==
  /\ CanStart(t)
  /\ nops' = nops + 1
  /\ LET lquery  == ToLower(query)
         entries == {p \in DOMAIN Files : ~Entry(p).IsDir}
         byName  == {p \in entries : NameMatches(p, lquery)}
         read    == entries \ byName
         byText  == {p \in read : TextMatches(p, lquery)}
     IN  /\ thr' = [thr EXCEPT ![t] =
              [Begin(t, "Search", query, Empty, "idle", NoPtr)
                 EXCEPT !.ret = [val |-> SortedSeq(byName \cup byText),
                                 flag |-> FALSE, err |-> "nil"]]]
         /\ objs' = [key \in DOMAIN objs |->
              IF \E p \in read : key = <<p, Files[p]>>
                THEN [objs[key] EXCEPT !.Content = ContentRead(key[1])]
                ELSE objs[key]]
  /\ UNCHANGED <<root, disk, opened, Files, Tags, Backlinks, indexed, indexing,
                 bld, hist>>

\* The environment: a document file is removed from the disk behind the
\* vault's back, so that reading it fails from then on.
Vanish(relPath) ==
  /\ opened = "yes"
  /\ relPath \in DOMAIN disk
  /\ ~disk[relPath].isDir
  /\ disk' = [p \in DOMAIN disk \ {relPath} |-> disk[p]]
  /\ UNCHANGED <<root, opened, Files, objs, Tags, Backlinks, indexed, indexing,
                 thr, bld, nops, hist>>

\* The environment: another program rewrites a document file on the disk.
ExternalEdit(relPath, content) ==
  /\ opened = "yes"
  /\ Readable(disk, relPath)
  /\ disk[relPath].data # content
  /\ disk' = PutFile(disk, relPath, content)
  /\ UNCHANGED <<root, opened, Files, objs, Tags, Backlinks, indexed, indexing,
                 thr, bld, nops, hist>>

\* FindFile: the two passes over v.Files under the shared lock, on the name
\* as given (lowered, nothing appended).
FindFile(t, name) ==
  /\ CanStart(t)
  /\ nops' = nops + 1
  /\ \E r \in findFileInternal(DOMAIN Files, name) :
       thr' = [thr EXCEPT ![t] =
         [Begin(t, "FindFile", name, Empty, "idle", NoPtr)
            EXCEPT !.ret = [val |-> r, flag |-> FALSE, err |-> "nil"]]]
  /\ UNCHANGED <<root, disk, opened, Files, objs, Tags, Backlinks, indexed,
                 indexing, bld, hist>>

(***************************************************************************)
(* The specification                                                       *)
(***************************************************************************)

\* The steps of the BuildIndexAsync goroutines; oks says whether a document
\* read can fail.
BuildNext(oks) ==
  \/ \E b \in BuildIds : BuildCheckAndSet(b)
  \/ \E b \in BuildIds : BuildSnapshot(b)
  \/ \E b \in BuildIds : \E relPath \in bld[b].rem : BuildSkipDir(b, relPath)
  \/ \E b \in BuildIds : \E relPath \in bld[b].rem : \E ok \in oks :
       BuildRead(b, relPath, ok)
  \/ \E b \in BuildIds : BuildStore(b)
  \/ \E b \in BuildIds : BuildCommit(b)

\* Index builds against rescans and queries: callers rescan a tree of two
\* documents and query the index.
NextBuild ==
  \/ NewVaultFails
  \/ NewVault({})
  \/ BuildNext({TRUE})
  \/ \E t \in Threads : Scan(t, {})
  \/ \E t \in Threads : ScanFlag(t)
  \/ \E t \in Threads : GetBacklinks(t, B_md)
  \/ \E t \in Threads : GetFilesWithTag(t, <<"p">>)

SpecBuild == InitOn(Roots, InitialDisks) /\ [][NextBuild]_vars

\* Walks that meet filesystem errors: NewVault and Scan over a tree of two
\* documents where a.md or the root can fail; document reads of a Build can
\* fail as well.
NextWalk ==
  \/ NewVaultFails
  \/ \E failing \in {{}, {A_md}} : NewVault(failing)
  \/ BuildNext(BOOLEAN)
  \/ \E t \in Threads : \E failing \in {{}, {A_md}, {Dot}} : Scan(t, failing)
  \/ \E t \in Threads : ScanFlag(t)
  \/ \E t \in Threads : IsIndexed(t)

SpecWalk == InitOn(Roots, InitialDisks) /\ [][NextWalk]_vars

\* The index of a tree: NewVault on one of the indexing scenarios, its Build
\* (document reads can fail) and the queries.
NextIndex ==
  \/ NewVault({})
  \/ BuildNext(BOOLEAN)
  \/ \E t \in Threads : \E relPath \in QueryIds : GetBacklinks(t, relPath)
  \/ \E t \in Threads : \E tag \in QueryTags : GetFilesWithTag(t, tag)
  \/ \E t \in Threads : \E name \in QueryNames : FindFile(t, name)
  \/ \E t \in Threads : CallerMutates(t)
  \/ \E t \in Threads : IsIndexed(t)

SpecIndex ==
  InitOn({[name |-> <<"v">>, kind |-> "dir"]}, IndexDisks) /\ [][NextIndex]_vars

\* The resolver: NewVault on a tree where two documents share a base name,
\* the Build that resolves the links of c.md, and FindFile.
NextResolve ==
  \/ NewVault({})
  \/ BuildNext({TRUE})
  \/ \E t \in Threads : \E name \in ResolveNames : FindFile(t, name)

SpecResolve ==
  InitOn({[name |-> <<"v">>, kind |-> "dir"]}, ResolveDisks) /\ [][NextResolve]_vars

\* Search: NewVault on one of the indexing scenarios, its Build, searches,
\* and documents that vanish from the disk.
NextSearch ==
  \/ NewVault({})
  \/ BuildNext({TRUE})
  \/ \E t \in Threads : \E query \in SearchQueries : Search(t, query)
  \/ \E relPath \in {A_md, D_B_md} : Vanish(relPath)

SpecSearch ==
  InitOn({[name |-> <<"v">>, kind |-> "dir"]}, IndexDisks) /\ [][NextSearch]_vars

\* Index builds against writes and rescans: callers rewrite a.md and rescan.
NextStale ==
  \/ NewVaultFails
  \/ NewVault({})
  \/ BuildNext({TRUE})
  \/ \E t \in Threads : WriteFile(t, A_md, OtherTag)
  \/ \E t \in Threads : WriteFileDisk(t, TRUE)
  \/ \E t \in Threads : WriteFileUpdate(t)
  \/ \E t \in Threads : Scan(t, {})
  \/ \E t \in Threads : ScanFlag(t)

SpecStale == InitOn(Roots, InitialDisks) /\ [][NextStale]_vars

\* Reads against writes: callers read and write the one document a.md while
\* the Build of NewVault runs; disk reads and writes can fail.
NextRW ==
  \/ NewVaultFails
  \/ NewVault({})
  \/ BuildNext({TRUE})
  \/ \E t \in Threads : ReadFile(t, A_md)
  \/ \E t \in Threads : ReadFileCheck(t)
  \/ \E t \in Threads : ReadFileHit(t)
  \/ \E t \in Threads : \E ok \in BOOLEAN : ReadFileDisk(t, ok)
  \/ \E t \in Threads : ReadFileFill(t)
  \/ \E t \in Threads : ReadFileReturn(t)
  \/ \E t \in Threads : \E content \in {Empty, OtherTag} : WriteFile(t, A_md, content)
  \/ \E t \in Threads : \E ok \in BOOLEAN : WriteFileDisk(t, ok)
  \/ \E t \in Threads : WriteFileUpdate(t)

SpecRW == InitOn(Roots, {A_md :> RegularFile(LinkAndTag)}) /\ [][NextRW]_vars

\* The error paths: callers read, write and delete a.md, which is catalogued,
\* and b.md, which is not; the disk operations may fail.
NextErr ==
  \/ NewVault({})
  \/ BuildNext({TRUE})
  \/ \E t \in Threads : \E id \in Ids : ReadFile(t, id)
  \/ \E t \in Threads : ReadFileCheck(t)
  \/ \E t \in Threads : ReadFileHit(t)
  \/ \E t \in Threads : ReadFileDisk(t, TRUE)
  \/ \E t \in Threads : ReadFileFill(t)
  \/ \E t \in Threads : ReadFileReturn(t)
  \/ \E t \in Threads : \E id \in Ids : WriteFile(t, id, OtherTag)
  \/ \E t \in Threads : \E ok \in BOOLEAN : WriteFileDisk(t, ok)
  \/ \E t \in Threads : WriteFileUpdate(t)
  \/ \E t \in Threads : \E id \in Ids : DeleteFile(t, id)
  \/ \E t \in Threads : \E ok \in BOOLEAN : DeleteFileDisk(t, ok)
  \/ \E t \in Threads : DeleteFileUpdate(t)

SpecErr ==
  InitOn({[name |-> <<"v">>, kind |-> "dir"]}, {A_md :> RegularFile(LinkAndTag)})
    /\ [][NextErr]_vars

\* Creating and deleting: callers create, delete and read a.md, which is in
\* the tree at the start: it is created over the entry it has and anew after
\* it was deleted. A disk read fails only when the file is not there.
NextMake ==
  \/ NewVault({})
  \/ BuildNext({TRUE})
  \/ \E t \in Threads : \E ok \in BOOLEAN : CreateFile(t, A_md, ok)
  \/ \E t \in Threads : CreateFileUpdate(t)
  \/ \E t \in Threads : DeleteFile(t, A_md)
  \/ \E t \in Threads : \E ok \in BOOLEAN : DeleteFileDisk(t, ok)
  \/ \E t \in Threads : DeleteFileUpdate(t)
  \/ \E t \in Threads : ReadFile(t, A_md)
  \/ \E t \in Threads : ReadFileCheck(t)
  \/ \E t \in Threads : ReadFileHit(t)
  \/ \E t \in Threads : ReadFileDisk(t, TRUE)
  \/ \E t \in Threads : ReadFileFill(t)
  \/ \E t \in Threads : ReadFileReturn(t)

SpecMake ==
  InitOn({[name |-> <<"v">>, kind |-> "dir"]}, {A_md :> RegularFile(LinkAndTag)})
    /\ [][NextMake]_vars

\* Scanning: NewVault and rescans over the trees of the scanning scenarios,
\* which nothing changes, with the Builds they start.
NextScan ==
  \/ NewVault({})
  \/ BuildNext({TRUE})
  \/ \E t \in Threads : Scan(t, {})
  \/ \E t \in Threads : ScanFlag(t)

SpecScan == InitOn(ScanRoots, ScanDisks) /\ [][NextScan]_vars

\* Reading against edits from outside: callers read and write a.md, empty at
\* the start, while another program rewrites the file; the first Build runs.
NextMemo ==
  \/ NewVault({})
  \/ BuildNext({TRUE})
  \/ \E t \in Threads : ReadFile(t, A_md)
  \/ \E t \in Threads : ReadFileCheck(t)
  \/ \E t \in Threads : ReadFileHit(t)
  \/ \E t \in Threads : ReadFileDisk(t, TRUE)
  \/ \E t \in Threads : ReadFileFill(t)
  \/ \E t \in Threads : ReadFileReturn(t)
  \/ \E t \in Threads : WriteFile(t, A_md, LinkAndTag)
  \/ \E t \in Threads : WriteFileDisk(t, TRUE)
  \/ \E t \in Threads : WriteFileUpdate(t)
  \/ \E content \in {Empty, OtherTag} : ExternalEdit(A_md, content)

SpecMemo ==
  InitOn({[name |-> <<"v">>, kind |-> "dir"]}, {A_md :> RegularFile(Empty)})
    /\ [][NextMemo]_vars

\* A caller returns from ExtractAllLinks(content), content being the text it
\* was called with (kept in id).
ExtractAllLinksCall(t) ==
  /\ thr[t].pc = "links"
  /\ thr' = Return(thr, t, ExtractAllLinks(thr[t].id), FALSE, "nil")
  /\ UNCHANGED <<root, disk, opened, Files, objs, Tags, Backlinks, indexed,
                 indexing, bld, nops, hist>>

\* The link parser alone: a caller is inside ExtractAllLinks with one of the
\* texts of the parser scenarios. The parser reads no state of the vault.
InitLinks ==
  /\ root = [name |-> <<"v">>, kind |-> "dir"]
  /\ disk = EmptyMap
  /\ opened = "no"
  /\ Files = EmptyMap
  /\ objs = EmptyMap
  /\ Tags = EmptyMap
  /\ Backlinks = EmptyMap
  /\ indexed = FALSE
  /\ indexing = FALSE
  /\ \E content \in LinkTexts :
       thr = [t \in Threads |->
                IF t = 1 THEN Begin(t, "ExtractAllLinks", content, Empty, "links", NoPtr)
                ELSE IdleThread]
  /\ bld = [b \in BuildIds |-> FreeBuild]
  /\ nops = 0
  /\ hist = InitHist

NextLinks == \E t \in Threads : ExtractAllLinksCall(t)

SpecLinks == InitLinks /\ [][NextLinks]_vars

\* The steps of one BuildIndexAsync goroutine.
BuildSteps(b, oks) ==
  \/ BuildCheckAndSet(b)
  \/ BuildSnapshot(b)
  \/ \E relPath \in bld[b].rem : BuildSkipDir(b, relPath)
  \/ \E relPath \in bld[b].rem : \E ok \in oks : BuildRead(b, relPath, ok)
  \/ BuildStore(b)
  \/ BuildCommit(b)

\* Progress: NewVault and rescans over a tree of one document whose reads
\* can fail. The Go scheduler runs goroutines that can run: while a Build
\* goroutine can take a step one of them does in the end, and so for the
\* callers inside Scan. Nothing makes a caller start another Scan.
NextLive ==
  \/ NewVault({})
  \/ \E b \in BuildIds : BuildSteps(b, BOOLEAN)
  \/ \E t \in Threads : Scan(t, {})
  \/ \E t \in Threads : ScanFlag(t)

SpecLive ==
  /\ InitOn({[name |-> <<"v">>, kind |-> "dir"]}, {A_md :> RegularFile(OtherTag)})
  /\ [][NextLive]_vars
  /\ WF_vars(\E b \in BuildIds : BuildSteps(b, BOOLEAN))
  /\ WF_vars(\E t \in Threads : ScanFlag(t))

\* The steps that take caller t on inside ReadFile, WriteFile and Scan.
CallerSteps(t) ==
  \/ ReadFileCheck(t)
  \/ ReadFileHit(t)
  \/ ReadFileDisk(t, TRUE)
  \/ ReadFileFill(t)
  \/ ReadFileReturn(t)
  \/ WriteFileDisk(t, TRUE)
  \/ WriteFileUpdate(t)
  \/ ScanFlag(t)

\* The lock protocol: callers read and write a.md and rescan while Builds
\* run, whose document reads can fail. No step waits for anything but the lock, which no step keeps, and
\* the Go scheduler runs goroutines that can run: a caller inside an
\* operation and a Build goroutine take their next step in the end.
NextFair ==
  \/ NewVault({})
  \/ \E b \in BuildIds : BuildSteps(b, BOOLEAN)
  \/ \E t \in Threads : ReadFile(t, A_md)
  \/ \E t \in Threads : WriteFile(t, A_md, Empty)
  \/ \E t \in Threads : Scan(t, {})
  \/ \E t \in Threads : CallerSteps(t)

SpecFair ==
  /\ InitOn({[name |-> <<"v">>, kind |-> "dir"]}, {A_md :> RegularFile(OtherTag)})
  /\ [][NextFair]_vars
  /\ WF_vars(\E b \in BuildIds : BuildSteps(b, BOOLEAN))
  /\ WF_vars(\E t \in Threads : CallerSteps(t))

\* The shape of the catalog: callers create a text file, a hidden document
\* and a document in a directory that does not exist yet, and rescan.
NextForm ==
  \/ NewVault({})
  \/ BuildNext({TRUE})
  \/ \E t \in Threads : \E relPath \in {Note_TXT, Hidden_A_md, D_N_md} :
       CreateFile(t, relPath, TRUE)
  \/ \E t \in Threads : CreateFileUpdate(t)
  \/ \E t \in Threads : Scan(t, {})
  \/ \E t \in Threads : ScanFlag(t)

SpecForm ==
  InitOn({[name |-> <<"v">>, kind |-> "dir"]}, {A_md :> RegularFile(Empty)})
    /\ [][NextForm]_vars

(***************************************************************************)
(* Properties                                                              *)
(***************************************************************************)

\* Build b is between its check-and-set and its final swap.
Active(b) == bld[b].pc \in {"snapshot", "loop", "store"}

\* All callers are between operations and no Build goroutine is left.
Quiescent ==
  /\ \A t \in Threads : thr[t].pc = "idle"
  /\ \A b \in BuildIds : bld[b].pc = "free"

\* C1. At most one index build is between its check-and-set and its final
\* swap at any time (v.indexing is set exactly then), and a build request
\* that meets an active build returns without changing the catalog, the
\* index or the flags.
C1_SingleBuild ==
  /\ [](/\ Cardinality({b \in BuildIds : Active(b)}) <= 1
        /\ indexing <=> \E b \in BuildIds : Active(b))
  /\ [][\A b \in BuildIds :
          (/\ bld[b].pc = "start"
           /\ bld'[b].pc # "start"
           /\ \E c \in BuildIds \ {b} : Active(c))
          => /\ bld'[b].pc = "free"
             /\ UNCHANGED <<Files, objs, Tags, Backlinks, indexed, indexing>>]_vars

\* C1 happens: a build is active and a request has returned at the flag check
\* because a build was active.
C1_RequestMetActiveBuild ==
  \E b, c \in BuildIds :
    /\ Active(b)
    /\ bld[c].pc = "free"
    /\ bld[c].last = "noop_active"

\* Build b installs its finished private maps as the published index.
Installs(b) ==
  /\ bld[b].pc = "loop"
  /\ bld[b].rem = {}
  /\ bld'[b].pc = "free"
  /\ Tags' = bld[b].tags
  /\ Backlinks' = bld[b].backlinks

\* Caller t, the one an operation can start on, makes the query op in this
\* step.
Queries(t, op) ==
  /\ CanStart(t)
  /\ nops' = nops + 1
  /\ thr'[t].pc = "idle"
  /\ thr'[t].op = op

\* C2. The published tag index and backlink index change only in the final
\* swap of a build, both in that one step and to the build's finished private
\* maps; a query returns the entry of the published index, so what it sees is
\* the index before the build or the one after it, never a part of the
\* private maps.
C2_IndexSwappedWhole ==
  [][/\ (Tags' # Tags \/ Backlinks' # Backlinks) => \E b \in BuildIds : Installs(b)
     /\ \A t \in Threads :
          /\ Queries(t, "GetFilesWithTag")
               => /\ thr'[t].ret.val = SortStrings(MapGet(Tags, thr'[t].id))
                  /\ Tags' = Tags
          /\ Queries(t, "GetBacklinks")
               => /\ thr'[t].ret.val = SortStrings(MapGet(Backlinks, thr'[t].id))
                  /\ Backlinks' = Backlinks]_vars

\* C2 happens: a query has returned that was made while a build held a partly
\* filled private index, and it returned the published entry, which the
\* private map of the build does not equal.
C2_QueryDuringBuild ==
  \E t \in Threads : \E b \in BuildIds :
    /\ thr[t].pc = "idle"
    /\ thr[t].op = "GetFilesWithTag"
    /\ thr[t].mid
    /\ bld[b].pc \in {"loop", "store"}
    /\ bld[b].tags # Tags
    /\ thr[t].ret.val = SortStrings(MapGet(Tags, thr[t].id))

\* The catalogued documents that can be read.
Docs == {p \in DOMAIN Files : ~Entry(p).IsDir /\ Readable(disk, p)}

\* For each wiki link of document d, the entries findFileInternal can return
\* for it over the catalog.
WikiTargets(d) ==
  {findFileInternal(DOMAIN Files, ResolveWikiLink(l.Target, Dir(d), root.name)) :
     l \in {x \in Range(ExtractAllLinks(disk[d].data)) : x.IsWikiLink}}

\* The published index is what a Build of the catalog and the documents as
\* they are now yields, the order inside an entry left aside.
IndexOfCatalog ==
  /\ \A tag \in DOMAIN Tags \cup TagNames :
       Range(MapGet(Tags, tag)) =
         {d \in Docs : tag \in Range(ExtractUniqueTags(disk[d].data))}
  /\ \A p \in DOMAIN Backlinks : \A d \in Range(Backlinks[p]) :
       d \in Docs /\ \E S \in WikiTargets(d) : p \in S
  /\ \A d \in Docs : \A S \in WikiTargets(d) :
       S = {Empty} \/ \E p \in S : d \in Range(MapGet(Backlinks, p))

\* C3. After a Rescan that returned, also one issued while a Build was in
\* flight, a fresh Build over the new catalog runs: once nothing is in
\* progress any more (no caller inside an operation, no Build goroutine left,
\* so the index cannot change again), with no WriteFile, CreateFile or
\* DeleteFile since the catalog was replaced and no document unreadable, the
\* index is ready and equals the Build of the catalog.
C3_RescanRebuilds ==
  (Quiescent /\ hist.rescanned /\ ~hist.dirty /\ ~hist.idxSkipped)
    => indexed /\ IndexOfCatalog

\* C4. Whenever the flag IsIndexed returns is true, the published index was
\* built from a snapshot taken after the last replace of the catalog.
C4_ReadyMeansCurrent == indexed => hist.idxFresh

\* The catalog after the step has the entries it had before, with the same
\* fields.
CatalogKept ==
  /\ DOMAIN Files' = DOMAIN Files
  /\ \A p \in DOMAIN Files : objs'[<<p, Files'[p]>>] = Entry(p)

\* C5. A Rescan whose walk meets a filesystem error leaves the catalog, the
\* tag index and the backlink index as they were.
C5_FailedRescanIsolated ==
  [][\A t \in Threads :
       (thr[t].pc = "idle" /\ thr'[t].pc = "sc_flag" /\ thr'[t].flt)
         => CatalogKept /\ Tags' = Tags /\ Backlinks' = Backlinks]_vars

\* C6. A walk that meets a filesystem error makes Scan and NewVault return
\* an error: no Scan whose walk met one returns nil, and no vault is opened
\* by a NewVault whose walk met one.
C6_WalkErrorReturned ==
  /\ \A t \in Threads :
       (thr[t].pc = "idle" /\ thr[t].op = "Scan" /\ thr[t].flt)
         => thr[t].ret.err # "nil"
  /\ opened = "yes" => ~hist.openErr

C8_EntryReflectsWrite ==
  \A id \in Ids :
    hist.wrote[id].valid
      => /\ id \in DOMAIN Files
         /\ Entry(id).Tags = ExtractUniqueTags(hist.wrote[id].c)
         /\ Entry(id).Links = ExtractAllLinks(hist.wrote[id].c)

\* C9. A ReadFile(id) that started after a WriteFile(id, c) returned success,
\* with no later write or Rescan, returns c, whatever other ReadFile(id) was
\* in progress during the write.
C9_ReadAfterWrite ==
  \A t \in Threads :
    (thr[t].pc = "idle" /\ thr[t].op = "ReadFile" /\ thr[t].exp.valid)
      => thr[t].ret.val = thr[t].exp.c

\* C10. Of the ReadFile calls on one document that are in progress together,
\* with no WriteFile or Rescan since either started, at most one gets to the
\* cache fill.
C10_OneCacheFill ==
  \A t, u \in Threads :
    (/\ t # u
     /\ thr[t].op = "ReadFile" /\ thr[u].op = "ReadFile"
     /\ thr[t].id = thr[u].id
     /\ thr[t].cnt /\ thr[u].cnt)
    => ~(thr[t].pc \in {"rf_fill", "rf_ret"} /\ thr[u].pc \in {"rf_fill", "rf_ret"})

\* Caller t takes a step of WriteFile: the lookup, the disk write or the
\* update.
WriteSteps(t) ==
  \/ CanStart(t) /\ nops' = nops + 1 /\ thr'[t].op = "WriteFile"
  \/ thr[t].pc \in {"wf_disk", "wf_update"} /\ thr'[t].pc # thr[t].pc

\* C11. No step of WriteFile changes the tag index, the backlink index, the
\* flags or a catalog entry other than the written one, so the queries return
\* the same before and after it; the published index changes only in the
\* final swap of a Build, be it one in flight during the write or one started
\* by a later Rescan.
C11_WriteLeavesIndex ==
  [][/\ \A t \in Threads :
          WriteSteps(t)
            => /\ Tags' = Tags /\ Backlinks' = Backlinks
               /\ indexed' = indexed /\ indexing' = indexing
               /\ \A tag \in TagNames :
                    SortStrings(MapGet(Tags', tag)) = SortStrings(MapGet(Tags, tag))
               /\ DOMAIN Files' = DOMAIN Files
               /\ \A p \in DOMAIN Files \ {thr'[t].id} :
                    objs'[<<p, Files'[p]>>] = Entry(p)
     /\ (Tags' # Tags \/ Backlinks' # Backlinks) => \E b \in BuildIds : Installs(b)]_vars

\* C11 happens: a WriteFile has returned success, the index is ready and
\* still files the document under the tag its content had before.
C11_IndexStaleAfterWrite ==
  /\ hist.wrote[A_md].valid
  /\ hist.wrote[A_md].c = OtherTag
  /\ indexed
  /\ MapGet(Tags, <<"p">>) = <<A_md>>
  /\ Entry(A_md).Tags = <<<<"t">>>>

\* C11 as stated: after a WriteFile returned success the index stays as it is
\* until a Rescan (only a later Rescan followed by its Build changes it).
C11_OnlyRescanChangesIndex ==
  [][(\E id \in Ids : hist.wrote[id].valid)
       => Tags' = Tags /\ Backlinks' = Backlinks]_vars

\* A Build has completed and its index is published, with no write, create,
\* delete or rescan since the catalog it took its snapshot of was made, and
\* no document it could not read.
BuildComplete ==
  indexed /\ hist.idxFresh /\ ~hist.dirty /\ ~hist.idxSkipped

\* C12. After a completed Build, GetBacklinks(B) contains A only if A is a
\* document with a wiki-style link that the resolver can resolve to B, and
\* every document A with a wiki-style link that resolves is in GetBacklinks
\* of a document the link can resolve to; a markdown-style link adds nothing.
C12_BacklinkSymmetry ==
  BuildComplete =>
    /\ \A B \in DOMAIN Files \cup DOMAIN Backlinks :
         \A A \in Range(SortStrings(MapGet(Backlinks, B))) :
           A \in Docs /\ \E S \in WikiTargets(A) : B \in S
    /\ \A A \in Docs : \A S \in WikiTargets(A) :
         \/ S = {Empty}
         \/ \E B \in S : A \in Range(SortStrings(MapGet(Backlinks, B)))

\* C12 happens: the Build of the tree where a.md has a markdown-style link
\* to b.md and b.md two wiki-style links to a.md has completed, and
\* GetBacklinks("a.md") has returned b.md while b.md has no backlink.
C12_BacklinksBuilt ==
  \E t \in Threads :
    /\ BuildComplete
    /\ disk[A_md].data = MdLinkB
    /\ B_md \notin DOMAIN Backlinks
    /\ thr[t].pc = "idle" /\ thr[t].op = "GetBacklinks" /\ thr[t].id = A_md
    /\ B_md \in Range(thr[t].ret.val)

\* C13. After a completed Build, GetFilesWithTag(T) holds exactly the
\* readable documents in whose content T occurs as a tag, and is the empty
\* sequence for a tag that occurs in none.
C13_TagIndexComplete ==
  BuildComplete =>
    \A T \in QueryTags \cup TagNames \cup DOMAIN Tags :
      LET result == SortStrings(MapGet(Tags, T))
          having == {D \in Docs : T \in Range(ExtractUniqueTags(disk[D].data))}
      IN  /\ Range(result) = having
          /\ having = {} => result = << >>

\* C13 happens: the Build of the tree with a.md "[[b]] [[c]] a#p", b.md "#t"
\* and d/b.md "[[b]] #p" has completed and GetFilesWithTag("p") has returned
\* d/b.md alone.
C13_TagQueried ==
  \E t \in Threads :
    /\ BuildComplete
    /\ disk[A_md].data = LinksBC
    /\ thr[t].pc = "idle" /\ thr[t].op = "GetFilesWithTag" /\ thr[t].id = <<"p">>
    /\ thr[t].ret.val = <<D_B_md>>
    /\ TagProject \notin DOMAIN Tags

\* The tree of the end-to-end scenario has been opened and its Build has
\* completed.
ScenarioBuilt ==
  BuildComplete /\ disk[A_md].data = SeeB /\ disk[B_md].data = NoLinks

\* What the queries return in the end-to-end scenario.
ScenarioIndex ==
  /\ SortStrings(MapGet(Tags, TagProject)) = <<A_md>>
  /\ SortStrings(MapGet(Backlinks, B_md)) = <<A_md>>
  /\ SortStrings(MapGet(Backlinks, A_md)) = << >>

\* C14. With a.md "See [[b]] and #project" and b.md "no links", once the
\* Build has completed GetFilesWithTag("project") is ["a.md"],
\* GetBacklinks("b.md") is ["a.md"], GetBacklinks("a.md") is empty and a
\* FindFile("b") returns "b.md".
C14_EndToEnd ==
  ScenarioBuilt =>
    /\ ScenarioIndex
    /\ \A t \in Threads :
         (thr[t].pc = "idle" /\ thr[t].op = "FindFile" /\ thr[t].id = <<"b">>)
           => thr[t].ret.val = B_md

\* The entries whose base name, and those whose full identifier, equals name
\* up to case.
BaseNameMatches(name) ==
  {p \in DOMAIN Files : ToLower(Base(p)) = ToLower(name)}

FullPathMatches(name) ==
  {p \in DOMAIN Files : ToLower(p) = ToLower(name)}

\* C15. The two passes: a result comes from the full-identifier pass only
\* when the base-name pass matches nothing, and is empty only when neither
\* matches. With a/x.md and b/x.md catalogued, "x" resolves to one of the two,
\* "a/x" to a/x.md exactly and "nonexistent" to nothing: seen in what FindFile
\* returns for the normalised names and in the backlinks the Build files for
\* the links [[x]], [[a/x]] and [[nonexistent]] of c.md.
C15_ResolverTwoPass ==
  /\ \A t \in Threads :
       (thr[t].pc = "idle" /\ thr[t].op = "FindFile")
         => LET name == thr[t].id
                r == thr[t].ret.val
            IN  /\ BaseNameMatches(name) # {} => r \in BaseNameMatches(name)
                /\ (BaseNameMatches(name) = {} /\ FullPathMatches(name) # {})
                     => r \in FullPathMatches(name)
                /\ r = Empty <=> (BaseNameMatches(name) = {} /\ FullPathMatches(name) = {})
                /\ name = <<"x", ".", "m", "d">> => r \in {A_X_md, B_X_md}
                /\ name = <<"A", "/", "x", ".", "m", "d">> => r = A_X_md
                /\ name \in {<<"x">>, <<"n", "o", "n", "e", "x", "i", "s", "t", "e", "n", "t",
                               ".", "m", "d">>} => r = Empty
  /\ (BuildComplete /\ disk[C_md].data = ThreeLinks)
       => /\ DOMAIN Backlinks \subseteq {A_X_md, B_X_md}
          /\ C_md \in Range(MapGet(Backlinks, A_X_md))
          /\ Len(MapGet(Backlinks, A_X_md)) + Len(MapGet(Backlinks, B_X_md)) = 2
  /\ (BuildComplete /\ disk[C_md].data = PathLinks)
       => Backlinks = (A_X_md :> <<C_md>>) @@ (B_X_md :> <<C_md>>)

\* C15 happens: the Build has resolved [[x]] of c.md to b/x.md and [[a/x]] to
\* a/x.md, and FindFile("A/x.md") has returned a/x.md.
C15_Resolved ==
  \E t \in Threads :
    /\ BuildComplete
    /\ disk[C_md].data = ThreeLinks
    /\ MapGet(Backlinks, B_X_md) = <<C_md>>
    /\ MapGet(Backlinks, A_X_md) = <<C_md>>
    /\ thr[t].pc = "idle" /\ thr[t].op = "FindFile"
    /\ thr[t].id = <<"A", "/", "x", ".", "m", "d">>
    /\ thr[t].ret.val = A_X_md

\* C16. A GetBacklinks or GetFilesWithTag made while v.indexed is false,
\* before the first Build completes or after a Rescan has reset the flag,
\* returns the empty sequence.
C16_EmptyWhenNotReady ==
  [][\A t \in Threads :
       ((Queries(t, "GetFilesWithTag") \/ Queries(t, "GetBacklinks")) /\ ~indexed)
         => thr'[t].ret.val = << >>]_vars

\* Sequence q is in the order of sort.Strings.
IsSorted(q) == \A i, j \in 1..Len(q) : i < j => ~StrLess(q[j], q[i])

\* Sequences q and r hold the same elements, each as often.
SameElements(q, r) ==
  /\ Len(q) = Len(r)
  /\ \A x \in Range(q) \cup Range(r) :
       Cardinality({i \in 1..Len(q) : q[i] = x}) = Cardinality({i \in 1..Len(r) : r[i] = x})

\* Caller t writes to the slice a query returned to it.
MutatesResult(t) ==
  /\ nops' = nops
  /\ thr[t].pc = "idle" /\ thr'[t].pc = "idle"
  /\ thr'[t].ret.val # thr[t].ret.val

\* C17. GetBacklinks and GetFilesWithTag return the stored entry sorted, in an
\* array of their own: the call leaves the stored tag index and backlink index
\* as they are, order included, and so does a later write of the caller to
\* the returned sequence; a later identical query therefore returns the same.
C17_SortedDefensiveCopy ==
  [][\A t \in Threads :
       /\ Queries(t, "GetBacklinks")
            => /\ IsSorted(thr'[t].ret.val)
               /\ SameElements(thr'[t].ret.val, MapGet(Backlinks, thr'[t].id))
               /\ thr'[t].shares = NoPtr
               /\ Backlinks' = Backlinks /\ Tags' = Tags
       /\ Queries(t, "GetFilesWithTag")
            => /\ IsSorted(thr'[t].ret.val)
               /\ SameElements(thr'[t].ret.val, MapGet(Tags, thr'[t].id))
               /\ thr'[t].shares = NoPtr
               /\ Backlinks' = Backlinks /\ Tags' = Tags
       /\ MutatesResult(t)
            => /\ Backlinks' = Backlinks /\ Tags' = Tags
               /\ SortStrings(MapGet(Backlinks', thr[t].id))
                    = SortStrings(MapGet(Backlinks, thr[t].id))]_vars

\* C17 happens: the stored backlinks of b.md are out of order, d/b.md before
\* a.md, GetBacklinks("b.md") has returned them sorted and the caller has
\* overwritten the first element of what it got.
C17_CopyMutated ==
  \E t \in Threads :
    /\ MapGet(Backlinks, B_md) = <<D_B_md, A_md>>
    /\ thr[t].pc = "idle" /\ thr[t].op = "GetBacklinks" /\ thr[t].id = B_md
    /\ thr[t].ret.val = <<Empty, D_B_md>>

\* Caller t makes a Search in this step.
Searches(t) == CanStart(t) /\ nops' = nops + 1 /\ thr'[t].op = "Search"

\* Document p matches query: its base name or the content that can be had of
\* it (cached, or read from the disk; none if the read fails) contains the
\* query, case left aside.
SearchMatch(p, query) ==
  \/ Contains(ToLower(Base(p)), ToLower(query))
  \/ /\ Entry(p).Content # Empty \/ Readable(disk, p)
     /\ Contains(ToLower(IF Entry(p).Content # Empty THEN Entry(p).Content
                         ELSE disk[p].data),
                 ToLower(query))

\* C18. Search(query) returns, sorted and without duplicates, exactly the
\* catalog entries that are no directory and whose base name or content
\* contains the query, case left aside; a document whose content cannot be
\* read matches by its name only.
C18_SearchResult ==
  [][\A t \in Threads :
       Searches(t)
         => LET result == thr'[t].ret.val
            IN  /\ IsSorted(result)
                /\ \A i, j \in 1..Len(result) : i # j => result[i] # result[j]
                /\ Range(result) =
                     {p \in DOMAIN Files :
                        ~Entry(p).IsDir /\ SearchMatch(p, thr'[t].id)}]_vars

\* C18 happens: in the tree with the directory d, after a.md has vanished
\* uncached, Search("b") has returned b.md and d/b.md, which match by name,
\* and not a.md, whose content "[[b]] ..." could not be read.
C18_Searched ==
  \E t \in Threads :
    /\ D_dir \in DOMAIN Files
    /\ A_md \in DOMAIN Files /\ A_md \notin DOMAIN disk
    /\ thr[t].pc = "idle" /\ thr[t].op = "Search" /\ thr[t].id = <<"b">>
    /\ thr[t].ret.val = <<B_md, D_B_md>>

\* Caller t is about to read the Content of a File without the lock: the
\* cache-hit check of ReadFile (line 212) or one of its returns (213, 225).
ReadsUnlocked(t) == thr[t].pc \in {"rf_check", "rf_hit", "rf_ret"}

\* Caller t is about to write the Content of a File, under the exclusive lock:
\* the update of WriteFile (line 242) or the cache fill of ReadFile (222).
WritesContent(t) == thr[t].pc \in {"wf_update", "rf_fill"}

\* C19. Every access to the shared state is made with the lock held: no state
\* is reachable in which one caller is about to write the content of an entry
\* while another is about to read the content of that entry without the lock.
C19_NoUnlockedRead ==
  \A t, u \in Threads :
    t # u /\ thr[t].ptr = thr[u].ptr
      => ~(ReadsUnlocked(t) /\ WritesContent(u))

\* Caller t starts a ReadFile, WriteFile or DeleteFile on an identifier that
\* is not in the catalog.
StartsOnAbsent(t) ==
  /\ CanStart(t) /\ nops' = nops + 1
  /\ thr'[t].op \in {"ReadFile", "WriteFile", "DeleteFile"}
  /\ thr'[t].id \notin DOMAIN Files

\* Caller t leaves WriteFile or DeleteFile at the filesystem operation.
FailsOnDisk(t) == thr[t].pc \in {"wf_disk", "df_disk"} /\ thr'[t].pc = "idle"

\* The catalog has the same entries, with the same cached content, tags and
\* links, after the step as before.
EntriesKept ==
  /\ Files' = Files
  /\ \A p \in DOMAIN Files : objs'[<<p, Files[p]>>] = objs[<<p, Files[p]>>]

\* C20. ReadFile, WriteFile and DeleteFile on an identifier that is not in
\* the catalog return the not-found error and leave the catalog, the cached
\* contents, the index, the flags and the filesystem as they were; a WriteFile
\* or DeleteFile goes on to its catalog update only if its filesystem
\* operation took effect, and otherwise returns the error with every catalog
\* entry unchanged.
C20_ErrorsChangeNothing ==
  [][\A t \in Threads :
       /\ StartsOnAbsent(t)
            => /\ thr'[t].pc = "idle" /\ thr'[t].ret.err = "ErrNotExist"
               /\ EntriesKept
               /\ UNCHANGED <<disk, Tags, Backlinks, indexed, indexing>>
       /\ FailsOnDisk(t)
            => /\ thr'[t].ret.err = "IOError"
               /\ EntriesKept
               /\ UNCHANGED <<Tags, Backlinks, indexed, indexing>>
       /\ (thr[t].pc = "wf_disk" /\ thr'[t].pc = "wf_update")
            => Readable(disk', thr[t].id) /\ disk'[thr[t].id].data = thr[t].arg
       /\ (thr[t].pc = "df_disk" /\ thr'[t].pc = "df_update")
            => thr[t].id \notin DOMAIN disk']_vars

\* C20 happens: with a.md catalogued, indexed and cached, one caller's
\* DeleteFile("b.md") has returned the not-found error and the other's
\* DeleteFile("a.md") the error of os.Remove.
C20_ErrorsReturned ==
  \E t, u \in Threads :
    /\ thr[t].pc = "idle" /\ thr[t].op = "DeleteFile" /\ thr[t].id = B_md
    /\ thr[t].ret.err = "ErrNotExist"
    /\ thr[u].pc = "idle" /\ thr[u].op = "DeleteFile" /\ thr[u].id = A_md
    /\ thr[u].ret.err = "IOError"
    /\ indexed /\ A_md \in DOMAIN Files /\ Entry(A_md).Content = LinkAndTag
    /\ A_md \in DOMAIN disk

\* Caller t takes a step of CreateFile or DeleteFile: the start, the
\* filesystem operation or the catalog update.
MakeSteps(t) ==
  \/ CanStart(t) /\ nops' = nops + 1 /\ thr'[t].op \in {"CreateFile", "DeleteFile"}
  \/ thr[t].pc \in {"cf_update", "df_disk", "df_update"} /\ thr'[t].pc # thr[t].pc

\* C21. CreateFile and DeleteFile take effect in the catalog at once and
\* leave the index alone: a ReadFile(id) that starts after a successful
\* CreateFile(id) returns the empty content without error, one that starts
\* after a successful DeleteFile(id) returns the not-found error (no other
\* operation that changes id in between), and no step of either operation
\* changes the tag index, the backlink index or the flags or starts a Build.
C21_CreateDeleteVisible ==
  /\ [](\A t \in Threads :
          (thr[t].pc = "idle" /\ thr[t].op = "ReadFile")
            => /\ thr[t].made = "created"
                    => thr[t].ret = [val |-> Empty, flag |-> FALSE, err |-> "nil"]
               /\ thr[t].made = "deleted" => thr[t].ret.err = "ErrNotExist")
  /\ [](\A id \in Ids :
          /\ hist.made[id] = "created"
               => id \in DOMAIN Files /\ ~Entry(id).IsDir /\ Entry(id).Content = Empty
          /\ hist.made[id] = "deleted" => id \notin DOMAIN Files)
  /\ [][\A t \in Threads :
          MakeSteps(t) => UNCHANGED <<Tags, Backlinks, indexed, indexing, bld>>]_vars

\* C21 happens: with the index built from a.md = "[[b]] #p", a caller has
\* created a.md again and a ReadFile has read it back empty, the tag index
\* still being the one of the old a.md and no Build running.
C21_CreatedReadBack ==
  \E t \in Threads :
    /\ thr[t].pc = "idle" /\ thr[t].op = "ReadFile" /\ thr[t].id = A_md
    /\ thr[t].made = "created"
    /\ thr[t].ret = [val |-> Empty, flag |-> FALSE, err |-> "nil"]
    /\ indexed /\ ~indexing /\ MapGet(Tags, <<"p">>) = <<A_md>>

\* The names on the way from the root down to path p, p's own included.
Components(p) == {Base(a) : a \in Ancestors(p) \cup {p}}

\* Path p of the tree is one a walk keeps: no name on the way to it starts
\* with ".", and it is a directory or a file named *.md, case left aside.
Eligible(dsk, p) ==
  /\ \A name \in Components(p) : ~Hidden(name)
  /\ dsk[p].isDir \/ HasSuffix(ToLower(Base(p)), DotMd)

\* C22. NewVault on a path that is missing or no directory gives an error and
\* no vault: nothing is catalogued and no Build goroutine exists. NewVault on
\* a directory returns with every document and directory of the tree
\* catalogued and exactly one Build goroutine started, which has not yet
\* taken a step: the index is not ready and is not waited for.
C22_Open ==
  /\ [](root.kind # "dir" => opened # "yes")
  /\ [](opened = "failed"
          => /\ Files = EmptyMap /\ Tags = EmptyMap /\ Backlinks = EmptyMap
             /\ ~indexed /\ ~indexing
             /\ \A b \in BuildIds : bld[b].pc = "free")
  /\ [][(opened = "no" /\ opened' = "yes")
          => /\ \A p \in DOMAIN disk : Eligible(disk, p) => p \in DOMAIN Files'
             /\ \A p \in DOMAIN Files' \ {Dot} : p \in DOMAIN disk /\ Eligible(disk, p)
             /\ Cardinality({b \in BuildIds : bld'[b].pc # "free"}) = 1
             /\ \A b \in BuildIds : bld'[b].pc \in {"free", "start"}
             /\ ~indexed' /\ ~indexing']_vars

\* C22 happens: NewVault has returned the vault with a.md and b.md catalogued
\* and the first Build started, the index not ready.
C22_OpenedNotReady ==
  /\ opened = "yes"
  /\ {A_md, B_md} \subseteq DOMAIN Files
  /\ \E b \in BuildIds : bld[b].pc = "start"
  /\ ~indexed /\ ~indexing /\ nops = 0

\* C23. After a Scan of a tree without filesystem errors (the one of NewVault
\* included) the catalog has an entry for a path below the root exactly if no
\* name on that path starts with "." and the path is a directory or a file
\* named *.md in any case; nothing below a hidden directory is catalogued.
C23_ScanResult ==
  opened = "yes"
    => \A p \in DOMAIN disk : p \in DOMAIN Files <=> Eligible(disk, p)

\* The index is ready and no Build goroutine is left.
ReadyAndIdle ==
  /\ indexed /\ ~indexing
  /\ \A b \in BuildIds : bld[b].pc = "free"

\* C24. A Build that passed the check-and-set ends in no other way than by
\* its final swap, whatever Rescan is issued meanwhile, and after NewVault and any finite
\* number of Rescans a state is reached where the index is ready and no Build
\* goroutine is left, which lasts as long as no caller rescans.
C24_EventuallyReady ==
  /\ [][\A b \in BuildIds :
          Active(b) => \/ Active(b)'
                       \/ bld'[b].pc = "free" /\ bld'[b].last = "built"]_vars
  /\ <>[](opened = "yes" => ReadyAndIdle)

\* C24 happens: a Rescan returned while a Build was in flight (the goroutine
\* it started found v.indexing set and returned), and the index is ready with
\* no Build goroutine left.
C24_ReadyAfterRescan ==
  /\ ReadyAndIdle
  /\ hist.rescanned
  /\ \E b \in BuildIds : bld[b].last = "noop_active"

\* C25. A ReadFile(id) that starts after a ReadFile(id) has returned content
\* c, with no WriteFile of id and no Rescan since, returns c as well, for the
\* empty c too, whatever has happened to the file on disk.
C25_ReadMemoised ==
  \A t \in Threads :
    (thr[t].pc = "idle" /\ thr[t].op = "ReadFile" /\ thr[t].seen.valid)
      => thr[t].ret = [val |-> thr[t].seen.c, flag |-> FALSE, err |-> "nil"]

\* Document d is in some entry of the published tag index, or is the source
\* of some published backlink.
Indexed(d) ==
  \/ \E tag \in DOMAIN Tags : d \in Range(Tags[tag])
  \/ \E p \in DOMAIN Backlinks : d \in Range(Backlinks[p])

\* C26. A document the Build could not read is skipped and nothing else: in
\* the index of a Build over the present catalog it is in no entry of the tag
\* index and the source of no backlink, it is still catalogued, every other
\* document has its tags and its backlinks in the index, those to the
\* skipped document included, and the index is ready; the skip itself changes
\* nothing but the Build's own list of what is left, and no caller sees it.
C26_UnreadableSkipped ==
  /\ []((indexed /\ hist.idxFresh /\ ~hist.dirty)
          => /\ \A d \in hist.idxUnread : d \in DOMAIN Files /\ ~Indexed(d)
             /\ \A d \in Docs \ hist.idxUnread :
                  /\ \A tag \in Range(ExtractUniqueTags(disk[d].data)) :
                       d \in Range(MapGet(Tags, tag))
                  /\ \A S \in WikiTargets(d) :
                       S = {Empty} \/ \E p \in S : d \in Range(MapGet(Backlinks, p)))
  /\ [][\A b \in BuildIds :
          bld'[b].unread # bld[b].unread /\ bld'[b].unread # {}
            => /\ bld'[b].pc = "loop"
               /\ bld'[b].tags = bld[b].tags /\ bld'[b].backlinks = bld[b].backlinks
               /\ UNCHANGED <<Files, objs, Tags, Backlinks, indexed, indexing, thr>>]_vars

\* C26 happens: the Build of {a.md: "See [[b]] and #project", b.md} could not
\* read b.md and is done: the index is ready, b.md is catalogued and is the
\* target of the backlink from a.md.
C26_SkippedIsTarget ==
  /\ indexed /\ ~indexing
  /\ hist.idxUnread = {B_md}
  /\ B_md \in DOMAIN Files
  /\ MapGet(Backlinks, B_md) = <<A_md>>
  /\ MapGet(Tags, TagProject) = <<A_md>>

\* The links of seq that are wiki links (wiki true) or markdown links.
LinksOfKind(seq, wiki) ==
  LET Keep(l) == l.IsWikiLink = wiki
  IN  SelectSeq(seq, Keep)

\* C27. ExtractAllLinks returns every wiki link in the order of the text,
\* then every markdown link in the order of the text: no markdown link comes
\* before a wiki link, the start offsets rise strictly within each kind, and
\* the links of each kind are all the matches of its pattern.
C27_WikiThenMarkdown ==
  \A t \in Threads :
    (thr[t].pc = "idle" /\ thr[t].op = "ExtractAllLinks")
      => LET links == thr[t].ret.val
         IN  /\ \A i, j \in 1..Len(links) :
                  i < j => /\ ~(~links[i].IsWikiLink /\ links[j].IsWikiLink)
                           /\ links[i].IsWikiLink = links[j].IsWikiLink
                                => links[i].StartPos < links[j].StartPos
             /\ LinksOfKind(links, TRUE) = ExtractWikiLinks(thr[t].id)
             /\ LinksOfKind(links, FALSE) = ExtractMarkdownLinks(thr[t].id)

\* C27 happens: of a text where a markdown link stands before a wiki link,
\* the wiki link is returned first.
C27_LaterWikiFirst ==
  \E t \in Threads :
    /\ thr[t].pc = "idle" /\ thr[t].op = "ExtractAllLinks"
    /\ Len(thr[t].ret.val) = 2
    /\ thr[t].ret.val[1].IsWikiLink /\ ~thr[t].ret.val[2].IsWikiLink
    /\ thr[t].ret.val[2].StartPos < thr[t].ret.val[1].StartPos

\* C28. The first pass of the resolver compares the base name of every
\* catalogued identifier with the base name of the target, case left aside:
\* when some entry is named like the last component of the target, the
\* resolver returns such an entry.
C28_PassOneByLastComponent ==
  \A t \in Threads :
    (thr[t].pc = "idle" /\ thr[t].op = "FindFile")
      => LET hits == BaseNameMatches(Base(thr[t].id))
         IN  hits # {} => thr[t].ret.val \in hits

\* Build b resolves a wiki-style link in this step: it leaves the store of
\* a document that has one.
ResolvesWikiLink(b) ==
  /\ bld[b].pc = "store"
  /\ bld'[b].pc = "loop"
  /\ \E i \in 1..Len(bld[b].cur.links) : bld[b].cur.links[i].IsWikiLink

\* The documents of the snapshot of Build b that it has not taken yet.
DocsToCome(b) ==
  {p \in bld[b].rem \ {bld[b].cur.relPath} : ~bld[b].files[p]}

\* C29. The Build resolves links in a second phase: no step of a Build
\* resolves a wiki-style link while a document of its snapshot is still to
\* be read and its links stored.
C29_ResolveAfterAllStored ==
  [][\A b \in BuildIds : ResolvesWikiLink(b) => DocsToCome(b) = {}]_vars

\* Build b stores the links and tags of a catalogued document in this step.
StoresDocument(b) ==
  /\ bld[b].pc = "store"
  /\ bld'[b].pc = "loop"
  /\ bld[b].cur.relPath \in DOMAIN Files

\* C30. The Build reads each document through the content cache: when it
\* has stored the links and tags of a document, the cached content of the
\* entry is the text they were extracted from.
C30_BuildFillsCache ==
  [][\A b \in BuildIds :
       StoresDocument(b) =>
         LET cur == bld[b].cur
             Content == objs'[<<cur.relPath, Files[cur.relPath]>>].Content
         IN  /\ ExtractAllLinks(Content) = cur.links
             /\ ExtractUniqueTags(Content) = cur.tags]_vars

\* Build b reads a document from the disk in this step: it takes in the
\* links and tags of the text, or notes the document as unreadable.
ReadsDocument(b) ==
  /\ bld[b].pc = "loop"
  /\ bld'[b].pc = "store" \/ bld'[b].unread \ bld[b].unread # {}

C32_BacklinksDistinct ==
  \A t \in Threads :
    (thr[t].pc = "idle" /\ thr[t].op = "GetBacklinks")
      => LET r == thr[t].ret.val
         IN  \A i, j \in 1..Len(r) : r[i] = r[j] => i = j

\* Caller t starts CreateFile in this step.
StartsCreateFile(t) ==
  /\ thr[t].pc = "idle"
  /\ nops' = nops + 1
  /\ thr'[t].op = "CreateFile"

\* C33. CreateFile destroys no data: a file that is on the disk keeps its
\* content when CreateFile is called for it, and an entry that is in the
\* catalog keeps its cached content, its tags and its links.
C33_CreateKeepsData ==
  [][\A t \in Threads :
       /\ StartsCreateFile(t) =>
            LET id == thr'[t].id
            IN  (id \in DOMAIN disk /\ ~disk[id].isDir)
                  => disk'[id].data = disk[id].data
       /\ (thr[t].pc = "cf_update" /\ thr'[t].pc = "idle") =>
            LET id == thr[t].id
            IN  id \in DOMAIN Files =>
                  /\ objs'[<<id, Files'[id]>>].Content = Entry(id).Content
                  /\ objs'[<<id, Files'[id]>>].Tags = Entry(id).Tags
                  /\ objs'[<<id, Files'[id]>>].Links = Entry(id).Links]_vars

\* C34. The catalog stays well-formed: every entry below the root that is
\* no directory is named *.md, case left aside, no entry has a path
\* component that starts with ".", and the directory an entry lies in is
\* itself an entry.
C34_CatalogWellFormed ==
  \A p \in DOMAIN Files \ {Dot} :
    /\ Entry(p).IsDir \/ HasSuffix(ToLower(Base(p)), DotMd)
    /\ \A name \in Components(p) : ~Hidden(name)
    /\ \A a \in Ancestors(p) : a \in DOMAIN Files

\* C35. An exact match is honoured: when the target is, case left aside,
\* the full identifier of a catalogued entry, FindFile returns an identifier
\* that equals the target, case left aside.
C35_ExactMatchHonoured ==
  \A t \in Threads :
    (thr[t].pc = "idle" /\ thr[t].op = "FindFile")
      => (FullPathMatches(thr[t].id) # {}
            => thr[t].ret.val \in FullPathMatches(thr[t].id))

\* C36. The rule on hidden names spares the root: in a vault opened on a
\* directory whose own name starts with ".", every document and directory
\* of the tree that a walk keeps is catalogued.
C36_HiddenRootScanned ==
  (opened = "yes" /\ Hidden(root.name))
    => \A p \in DOMAIN disk : Eligible(disk, p) => p \in DOMAIN Files

\* C38. v.indexed and v.indexing are never both true. A Build starts only
\* when both are false and sets v.indexing; v.indexed becomes true only in
\* the step that clears v.indexing; while a Build is active v.indexing is
\* set and v.indexed is not; a request that finds the index ready ends and
\* changes nothing.
C38_FlagsExclusive ==
  /\ [](~(indexed /\ indexing))
  /\ [](\A b \in BuildIds : Active(b) => (indexing /\ ~indexed))
  /\ [][\A b \in BuildIds :
          (bld[b].pc = "start" /\ bld'[b].pc = "snapshot")
            => (~indexed /\ ~indexing /\ indexing')]_vars
  /\ [][(~indexed /\ indexed') => (indexing /\ ~indexing')]_vars
  /\ [][\A b \in BuildIds :
          (bld[b].pc = "start" /\ bld'[b].pc # "start" /\ indexed)
            => /\ bld'[b].pc = "free"
               /\ UNCHANGED <<Files, objs, Tags, Backlinks, indexed, indexing>>]_vars

\* A request for a Build has found the index ready and has ended, and the
\* index is still ready.
C38_RequestOnReadyIndex ==
  \E b \in BuildIds :
    /\ bld[b].pc = "free"
    /\ bld[b].last = "noop_ready"
    /\ indexed /\ ~indexing

=============================================================================
